---- MODULE Spec2Model ----
(***************************************************************************)
(* Model of sqlmodel_repository: BaseRepository (base_repository.py) and   *)
(* the id-based operations of Repository (repository.py) over a            *)
(* persistence engine session.                                             *)
(*                                                                         *)
(* The engine is an external collaborator.  It is modelled by the part of  *)
(* a unit-of-work session the repository relies on:                        *)
(*   db       the committed rows                                            *)
(*   view     the rows as the shared session sees them: db plus the        *)
(*            attribute changes made on attached entities and not yet      *)
(*            committed (commit makes db = view, rollback view = db)       *)
(*   seq      the engine's id sequence                                     *)
(* Rows are keyed by the serial the engine gave them on insert (their      *)
(* object identity); the id attribute is a field of the row.               *)
(***************************************************************************)
EXTENDS Integers, Sequences, FiniteSets, TLC

VARIABLES db, view, seq, deleted, policy, lastOp,
          cache, resolved, instances, lastType,
          threads, managers, instance, lock, session_context

\* The store and its provider, the entity type resolution, and the session
\* management shared by the threads of the process
store == <<db, view, seq, deleted, policy, lastOp>>
types == <<cache, resolved, instances, lastType>>
shared == <<threads, managers, instance, lock, session_context>>
vars == <<db, view, seq, deleted, policy, lastOp, cache, resolved, instances, lastType,
          threads, managers, instance, lock, session_context>>

\* Bounds of the model
MaxId == 2
MaxBatch == 2
MaxKw == 2
MaxRuns == 3
MaxThreads == 2

Oids == 1..MaxId
Names == {"a", "b"}
Ages == {1, 2}

NoRow == [id |-> 0, name |-> "", age |-> 0]
Row(i, n, a) == [id |-> i, name |-> n, age |-> a]

\* The two session-provider policies: context.get_session keeps one session
\* per context, the AbstractRepository of the integration scenario opens a
\* fresh one on every call.
Policies == {"same", "fresh"}

-----------------------------------------------------------------------------
(* Arguments the caller can pass *)

\* An entity argument.  kind:
\*   "new"        a valid unpersisted entity (id None)
\*   "bad"        an unpersisted entity the engine rejects on INSERT
\*   "str"        not an entity at all ("Hans der Tepppichwal")
\*   "persistent" the entity object attached to the shared session, row key
\*   "detached"   an entity object with primary key `key`, in no live session
\*   "foreign"    as detached, but the session that loaded it is still alive
Arg(k, key, n, a) == [kind |-> k, key |-> key, name |-> n, age |-> a]
NewEntity(n, a) == Arg("new", 0, n, a)
BadEntity == Arg("bad", 0, "", 0)
NonEntity == Arg("str", 0, "", 0)
Persistent(o) == Arg("persistent", o, "", 0)
Detached(i) == Arg("detached", i, "", 0)
Foreign(i) == Arg("foreign", i, "", 0)

\* A keyword argument key=value; none says value is None.
Kw(k, none, s, n) == [key |-> k, none |-> none, s |-> s, n |-> n]
KwPairs ==
    {Kw("name", FALSE, "b", 0), Kw("name", TRUE, "", 0), Kw("age", FALSE, "", 2),
     Kw("id", FALSE, "", MaxId), Kw("legs", FALSE, "", 12)}

\* Keyword arguments are an ordered dict: no key twice.
DistinctKeys(kw) == \A i, j \in 1..Len(kw) : i # j => kw[i].key # kw[j].key
SeqsUpTo(S, n) == UNION {[1..m -> S] : m \in 0..n}
ChangeSets == {kw \in SeqsUpTo(KwPairs, MaxKw) : DistinctKeys(kw)}

\* Attributes declared on the entity type (SQLModelEntity.id plus the
\* fields of the concrete schema).
Declared == {"id", "name", "age"}

-----------------------------------------------------------------------------
(* The session *)

Live(v) == {o \in Oids : v[o] # NoRow}
WithId(v, i) == {o \in Live(v) : v[o].id = i}

\* fault names the engine call that raises while the operation at hand
\* runs (the connection is lost, the row was changed by another
\* transaction): "commit", "refresh", or "none".
Faults == {"none", "commit", "refresh"}

\* The repository's logger: sink is the set of levels at which the logging
\* sink raises on emit, sens the configured sensitive_attribute_keys.
Levels == {"debug", "warning"}
Sinks == SUBSET Levels
SensitiveSets == {{}, {"name"}, {"id", "age"}}

Sess(d, v, s) ==
    [db |-> d, view |-> v, seq |-> s, fault |-> "none", sink |-> {}, sens |-> {}]
Cur == Sess(db, view, seq)
Faulty(st, f) == [st EXCEPT !.fault = f]
WithSink(st, k) == [st EXCEPT !.sink = k]
WithSensitive(st, keys) == [st EXCEPT !.sens = keys]

\* get_session() under the fresh policy: a session of its own, that sees
\* the committed rows and nothing else.
Fresh(st) == [st EXCEPT !.view = st.db]

\* A rollback that keeps what the session holds
RollbackKeep(st) == st

\* session.rollback(): the uncommitted changes are dropped
Rollback(st) == [st EXCEPT !.view = st.db]

\* session.commit(): flush, then make the transaction durable
Commit(st) == [st EXCEPT !.db = st.view]

\* A filter: attribute = value, or id IN ids.
Filter(k, none, s, n, ids) == [key |-> k, none |-> none, s |-> s, n |-> n, ids |-> ids]
IdFilter(i) == Filter("id", FALSE, "", i, {})
NullIdFilter == Filter("id", TRUE, "", 0, {})
IdInFilter(S) == Filter("id_in", FALSE, "", 0, S)

\* column == value; a comparison with None is IS NULL, which no row meets
Matches(row, f) ==
    CASE f.key = "name" -> ~f.none /\ row.name = f.s
      [] f.key = "age" -> ~f.none /\ row.age = f.n
      [] f.key = "id" -> ~f.none /\ row.id = f.n
      [] f.key = "id_in" -> row.id \in f.ids
      [] OTHER -> FALSE

\* session.query(entity).filter(*filters): the keys of the matching rows
QueryOids(v, filters) ==
    {o \in Live(v) : \A i \in 1..Len(filters) : Matches(v[o], filters[i])}

RECURSIVE OidSeq(_)
OidSeq(S) ==
    IF S = {} THEN <<>>
    ELSE LET o == CHOOSE x \in S : \A y \in S : x <= y
         IN <<o>> \o OidSeq(S \ {o})

\* .all(): the matching entities, in row order
RowsOf(v, os) == [i \in 1..Len(os) |-> v[os[i]]]

\* What an operation did besides its result: commits issued, queries run,
\* ids of the entities it deleted.
Eff(c, q, d) == [commits |-> c, queries |-> q, det |-> d]

\* What an operation leaves behind: the session state, how it ended ("ok"
\* or the exception that reached the caller), the entities it returned, the
\* keys of their rows, and its effects; log is the events it handed to the
\* logger, in order.  sessions counts the calls of
\* get_session(), rollbacks those of session.rollback(), closes those of
\* session.close(); no operation has a call that releases its session.
Res(st, outcome, result, oids, eff) ==
    [st |-> st, outcome |-> outcome, result |-> result, oids |-> oids,
     commits |-> eff.commits, queries |-> eff.queries, det |-> eff.det,
     sessions |-> 1, rollbacks |-> 0, closes |-> 0, log |-> <<>>]
Raise(st, exception, eff) == Res(st, exception, <<>>, <<>>, eff)

\* The outcome r of an operation that called get_session() n times
Acq(n, r) == [r EXCEPT !.sessions = n]

\* The outcome r of an operation whose except clause called rollback()
RolledBack(r) == [r EXCEPT !.rollbacks = 1]

\* b after a: the effects of two calls in a row
After(a, b) ==
    [b EXCEPT !.commits = a.commits + b.commits, !.queries = a.queries + b.queries,
              !.det = a.det \cup b.det, !.sessions = a.sessions + b.sessions,
              !.rollbacks = a.rollbacks + b.rollbacks, !.closes = a.closes + b.closes,
              !.log = a.log \o b.log]

-----------------------------------------------------------------------------
(* BaseRepository *)

\* get_session(): the shared session, or a fresh one
get_session(st) == IF policy = "fresh" THEN Fresh(st) ELSE st

\* self.entity.__name__ of the repository of the model
EntityName == "Pet"

\* BaseRepository._default_excluded_keys
default_excluded_keys == {"_sa_instance_state"}

\* entity.dict(): the attributes the entity object holds, as key/value
\* pairs; id is None before the entity is stored.
EntityDict(st, e) ==
    LET row == CASE e.kind = "persistent" -> st.view[e.key]
                 [] e.kind \in {"detached", "foreign"} -> Row(e.key, e.name, e.age)
                 [] OTHER -> Row(NoRow.id, e.name, e.age)
    IN <<Kw("id", row.id = NoRow.id, "", row.id), Kw("name", FALSE, row.name, 0),
         Kw("age", FALSE, "", row.age)>>

\* A _safe_kwargs that looks the prefixed key up in the excluded keys
safe_kwargsPrefixed(st, prefix, kv) ==
    LET keep == SelectSeq(kv, LAMBDA p : (prefix \o p.key) \notin (st.sens \cup default_excluded_keys))
    IN [i \in 1..Len(keep) |-> [keep[i] EXCEPT !.key = prefix \o keep[i].key]]

\* BaseRepository._safe_kwargs: the pairs whose key is neither sensitive
\* nor excluded by default, each key with the prefix in front
safe_kwargs(st, prefix, kv) ==
    LET keep == SelectSeq(kv, LAMBDA p : p.key \notin (st.sens \cup default_excluded_keys))
    IN [i \in 1..Len(keep) |-> [keep[i] EXCEPT !.key = prefix \o keep[i].key]]

\* An event handed to the logger: event is the words of its name, fields are the keyword arguments of the
\* call besides "payload", payload the list under that key when it is there.
Event(level, event, fields, payload, has_payload) ==
    [level |-> level, event |-> event, fields |-> fields, payload |-> payload,
     has_payload |-> has_payload]

\* An _emit_log that hands the keyword arguments to the logger as they are
emit_logRaw(st, operation, entities, kwargs) ==
    LET entity_payloads ==
            [i \in 1..Len(entities) |-> safe_kwargs(st, "", EntityDict(st, entities[i]))]
        entity_log == IF Len(entity_payloads) = 1 THEN entity_payloads[1] ELSE <<>>
        debug == Event("debug", <<operation, EntityName>>, entity_log \o kwargs,
                       IF Len(entity_payloads) = 1 THEN <<>> ELSE entity_payloads,
                       Len(entity_payloads) # 1)
        warning == Event("warning", <<"Could not emit log for", operation, EntityName>>,
                         <<Kw("exception", FALSE, "exception", 0)>>, <<>>, FALSE)
    IN IF (\A i \in 1..Len(entities) : entities[i].kind # "str") /\ "debug" \notin st.sink
       THEN [log |-> <<debug>>, raised |-> FALSE]
       ELSE IF "warning" \notin st.sink THEN [log |-> <<warning>>, raised |-> FALSE]
       ELSE [log |-> <<>>, raised |-> TRUE]

\* BaseRepository._emit_log.  The entry is built from entity.dict() of every
\* entity, which raises for what is no entity, and handed to logger.debug;
\* whatever raises in that is caught and handed to logger.warning, outside
\* any try.  raised says that the exception of the logger leaves _emit_log.
emit_log(st, operation, entities, kwargs) ==
    LET entity_payloads ==
            [i \in 1..Len(entities) |-> safe_kwargs(st, "", EntityDict(st, entities[i]))]
        entity_log == IF Len(entity_payloads) = 1 THEN entity_payloads[1] ELSE <<>>
        kwargs_log == safe_kwargs(st, "kwarg_", kwargs)
        debug == Event("debug", <<operation, EntityName>>, entity_log \o kwargs_log,
                       IF Len(entity_payloads) = 1 THEN <<>> ELSE entity_payloads,
                       Len(entity_payloads) # 1)
        warning == Event("warning", <<"Could not emit log for", operation, EntityName>>,
                         <<Kw("exception", FALSE, "exception", 0)>>, <<>>, FALSE)
    IN IF (\A i \in 1..Len(entities) : entities[i].kind # "str") /\ "debug" \notin st.sink
       THEN [log |-> <<debug>>, raised |-> FALSE]
       ELSE IF "warning" \notin st.sink THEN [log |-> <<warning>>, raised |-> FALSE]
       ELSE [log |-> <<>>, raised |-> TRUE]

\* The events lg, then the outcome r
WithLog(lg, r) == [r EXCEPT !.log = lg \o r.log]

\* The head of every operation: session = self.get_session(), then
\* self._emit_log(operation, ...), then the work with outcome r.  An
\* exception that leaves _emit_log leaves the operation before its work.
Logged(st, operation, entities, kwargs, r) ==
    LET l == emit_log(st, operation, entities, kwargs)
    IN IF l.raised THEN Raise(get_session(st), "LoggerException", Eff(0, 0, {}))
       ELSE WithLog(l.log, r)

\* A get that hands back None where no row matches
getOrNone(st, f) ==
    LET session == get_session(st)
        os == OidSeq(QueryOids(session.view, <<f>>))
    IN IF os = <<>> THEN Res(session, "ok", <<>>, <<>>, Eff(0, 1, {}))
       ELSE Res(session, "ok", <<session.view[os[1]]>>, <<os[1]>>, Eff(0, 1, {}))

\* BaseRepository.get: query by id, one_or_none(), EntityNotFoundException
\* on None.  f is the filter self.entity.id == entity_id.
get(st, f) ==
    LET session == get_session(st)
        os == OidSeq(QueryOids(session.view, <<f>>))
    IN Logged(st, "Getting", <<>>, <<Kw("id", f.none, "", f.n)>>,
           IF os = <<>> THEN Raise(session, "EntityNotFound", Eff(0, 1, {}))
           ELSE Res(session, "ok", <<session.view[os[1]]>>, <<os[1]>>, Eff(0, 1, {})))

\* A get_batch that reads with one() where no row matches
get_batchOne(st, filters) ==
    LET session == get_session(st)
        os == OidSeq(QueryOids(session.view, filters))
    IN IF os = <<>> /\ filters # <<>> THEN Raise(session, "EntityNotFound", Eff(0, 1, {}))
       ELSE Res(session, "ok", RowsOf(session.view, os), os, Eff(0, 1, {}))

\* BaseRepository.get_batch: query with the filters, all().  filters=None
\* is the empty list (line 152).
get_batch(st, filters) ==
    LET session == get_session(st)
        os == OidSeq(QueryOids(session.view, filters))
    IN Logged(st, "Batch get", <<>>, <<>>,
           Res(session, "ok", RowsOf(session.view, os), os, Eff(0, 1, {})))

\* A find that looks up only its first keyword on the entity class
findFirstKey(st, kw) ==
    IF kw # <<>> /\ kw[1].key \notin Declared
    THEN Acq(0, Raise(st, "EntityDoesNotPossessAttribute", Eff(0, 0, {})))
    ELSE get_batch(st, [i \in 1..Len(kw) |-> Filter(kw[i].key, kw[i].none, kw[i].s, kw[i].n, {})])

\* BaseRepository.find: one equality filter per keyword, in order;
\* getattr on the entity class raises AttributeError for an undeclared
\* name, before any query.
KwFilter(p) == Filter(p.key, p.none, p.s, p.n, {})
find(st, kw) ==
    IF \E i \in 1..Len(kw) : kw[i].key \notin Declared
    THEN Acq(0, Raise(st, "EntityDoesNotPossessAttribute", Eff(0, 0, {})))
    ELSE get_batch(st, [i \in 1..Len(kw) |-> KwFilter(kw[i])])

\* setattr(entity, key, value)
SetAttr(row, p) ==
    CASE p.key = "name" -> [row EXCEPT !.name = p.s]
      [] p.key = "age" -> [row EXCEPT !.age = p.n]
      [] p.key = "id" -> [row EXCEPT !.id = p.n]
      [] OTHER -> row

\* The loop over kwargs.items() of update and update_batch: a None value
\* is skipped, a key that cannot be set ends the loop with
\* EntityDoesNotPossessAttributeException (bad), the keys before it set.
RECURSIVE SetAttrs(_, _, _)
SetAttrs(row, kw, i) ==
    IF i > Len(kw) THEN [row |-> row, bad |-> FALSE]
    ELSE IF kw[i].none THEN SetAttrs(row, kw, i + 1)
    ELSE IF kw[i].key \notin Declared THEN [row |-> row, bad |-> TRUE]
    ELSE SetAttrs(SetAttr(row, kw[i]), kw, i + 1)

\* entity.id of an entity argument, as the filter get() is called with
EntityIdFilter(st, e) ==
    CASE e.kind = "persistent" -> IdFilter(st.view[e.key].id)
      [] e.kind \in {"detached", "foreign"} -> IdFilter(e.key)
      [] OTHER -> NullIdFilter

\* An update that commits its session whether or not the entity is found
updateCommitFirst(st, e, kw) ==
    IF e.kind = "str" THEN Raise(st, "RawException", Eff(0, 0, {}))
    ELSE
    LET session == get_session(st)
        g == get(session, EntityIdFilter(session, e))
    IN IF g.outcome # "ok" THEN Acq(2, Raise(Commit(g.st), g.outcome, Eff(1, 1, {})))
       ELSE LET o == g.oids[1]
                a == SetAttrs(g.st.view[o], kw, 1)
                s1 == IF policy = "same" THEN [g.st EXCEPT !.view[o] = a.row]
                      ELSE session
            IN IF a.bad
               THEN Acq(2, Raise(s1, "EntityDoesNotPossessAttribute", Eff(1, 1, {})))
               ELSE IF s1.fault = "commit"
               THEN Acq(2, Raise(s1, "RawException", Eff(1, 1, {})))
               ELSE IF policy # "same" \/ s1.fault = "refresh"
               THEN Acq(2, Raise(Commit(s1), "RawException", Eff(1, 1, {})))
               ELSE Acq(2, Res(Commit(s1), "ok", <<Commit(s1).db[o]>>, <<o>>, Eff(1, 1, {})))

\* BaseRepository.update.  session is taken first; the entity is fetched by
\* self.get(), which takes a session of its own.  The fetched entity is
\* attached to the session that commit() and refresh() are called on only
\* when the provider hands out the same session again; otherwise the commit
\* has nothing to write and refresh() raises for an entity that is not
\* persistent in that session.  entity.id of a non-entity raises.  No
\* except clause: an engine error of commit() or refresh() leaves as it is,
\* with what the session holds.
update(st, e, kw) ==
    Logged(st, "Updating", <<e>>, kw,
    IF e.kind = "str" THEN Raise(st, "RawException", Eff(0, 0, {}))
    ELSE
    LET session == get_session(st)
        g == get(session, EntityIdFilter(session, e))
    IN IF g.outcome # "ok" THEN Acq(2, g)
       ELSE LET o == g.oids[1]
                a == SetAttrs(g.st.view[o], kw, 1)
                s1 == IF policy = "same" THEN [g.st EXCEPT !.view[o] = a.row]
                      ELSE session
            IN WithLog(g.log,
               IF a.bad
               THEN Acq(2, Raise(s1, "EntityDoesNotPossessAttribute", Eff(0, 1, {})))
               ELSE IF s1.fault = "commit"
               THEN Acq(2, Raise(s1, "RawException", Eff(1, 1, {})))
               ELSE IF policy # "same" \/ s1.fault = "refresh"
               THEN Acq(2, Raise(Commit(s1), "RawException", Eff(1, 1, {})))
               ELSE Acq(2, Res(Commit(s1), "ok", <<Commit(s1).db[o]>>, <<o>>, Eff(1, 1, {})))))

\* The two loops of update_batch over the caller's entity objects: only an
\* entity attached to the session changes the session's view; setattr on a
\* non-entity raises.
RECURSIVE BatchSet(_, _, _, _)
BatchSet(v, es, kw, i) ==
    IF i > Len(es) THEN [view |-> v, bad |-> FALSE]
    ELSE IF es[i].kind = "persistent"
    THEN LET a == SetAttrs(v[es[i].key], kw, 1)
             v1 == [v EXCEPT ![es[i].key] = a.row]
         IN IF a.bad THEN [view |-> v1, bad |-> TRUE]
            ELSE BatchSet(v1, es, kw, i + 1)
    ELSE IF es[i].kind = "str"
    THEN IF \E j \in 1..Len(kw) : ~kw[j].none THEN [view |-> v, bad |-> TRUE]
         ELSE BatchSet(v, es, kw, i + 1)
    ELSE IF SetAttrs(NoRow, kw, 1).bad THEN [view |-> v, bad |-> TRUE]
         ELSE BatchSet(v, es, kw, i + 1)

\* BaseRepository.update_batch: set on every entity, one commit, then
\* refresh every entity, which raises for an entity that is not persistent
\* in this session.  No except clause, as in update.
update_batch(st, es, kw) ==
    LET session == get_session(st)
        b == BatchSet(session.view, es, kw, 1)
        s1 == [session EXCEPT !.view = b.view]
    IN Logged(st, "Batch updating", es, kw,
       IF b.bad THEN Raise(s1, "EntityDoesNotPossessAttribute", Eff(0, 0, {}))
       ELSE IF s1.fault = "commit" THEN Raise(s1, "RawException", Eff(1, 0, {}))
       ELSE IF \/ \E i \in 1..Len(es) : es[i].kind # "persistent"
               \/ s1.fault = "refresh" /\ es # <<>>
       THEN Raise(Commit(s1), "RawException", Eff(1, 0, {}))
       ELSE Res(Commit(s1), "ok", [i \in 1..Len(es) |-> Commit(s1).db[es[i].key]],
                [i \in 1..Len(es) |-> es[i].key], Eff(1, 0, {})))

\* The INSERTs of a flush, in the order the entities were added.  Every
\* INSERT takes the next value of the id sequence, also one the engine
\* then rejects (a constraint of the entity, or the id is in use).
RECURSIVE Inserts(_, _, _)
Inserts(st, es, i) ==
    IF i > Len(es) THEN [st |-> st, ok |-> TRUE]
    ELSE LET id == st.seq
             s1 == [st EXCEPT !.seq = id + 1]
         IN IF es[i].kind # "new" \/ WithId(st.view, id) # {}
            THEN [st |-> s1, ok |-> FALSE]
            ELSE Inserts([s1 EXCEPT !.view[id] = Row(id, es[i].name, es[i].age)],
                         es, i + 1)

\* The ids given by a flush of n INSERTs starting at sequence value s
NewIds(s, n) == [i \in 1..n |-> s + i - 1]

\* A create_batch that commits inside its loop, once for every entity
create_batchEach(st, es) ==
    LET session == get_session(st)
        f == Inserts(session, es, 1)
        ids == NewIds(session.seq, Len(es))
    IN IF \E i \in 1..Len(es) : es[i].kind \notin {"new", "bad"}
       THEN RolledBack(Raise(Rollback(session), "CouldNotCreateEntity", Eff(0, 0, {})))
       ELSE IF ~f.ok \/ session.fault = "commit"
       THEN RolledBack(Raise(Rollback(f.st), "CouldNotCreateEntity", Eff(1, 0, {})))
       ELSE IF session.fault = "refresh" /\ es # <<>>
       THEN Raise(Commit(f.st), "RawException", Eff(Len(es), 0, {}))
       ELSE Res(Commit(f.st), "ok", [i \in 1..Len(es) |-> Commit(f.st).db[ids[i]]],
                ids, Eff(Len(es), 0, {}))

\* BaseRepository.create_batch: add every entity (add raises for a
\* non-entity), one commit, rollback and CouldNotCreateEntityException on
\* any failure of these; then, outside the try, refresh every entity.
create_batch(st, es) ==
    LET session == get_session(st)
        f == Inserts(session, es, 1)
        ids == NewIds(session.seq, Len(es))
    IN Logged(st, "Batch creating", es, <<>>,
       IF \E i \in 1..Len(es) : es[i].kind \notin {"new", "bad"}
       THEN RolledBack(Raise(Rollback(session), "CouldNotCreateEntity", Eff(0, 0, {})))
       ELSE IF ~f.ok \/ session.fault = "commit"
       THEN RolledBack(Raise(Rollback(f.st), "CouldNotCreateEntity", Eff(1, 0, {})))
       ELSE IF session.fault = "refresh" /\ es # <<>>
       THEN Raise(Commit(f.st), "RawException", Eff(1, 0, {}))
       ELSE Res(Commit(f.st), "ok", [i \in 1..Len(es) |-> Commit(f.st).db[ids[i]]],
                ids, Eff(1, 0, {})))

\* A create that adds the entity and never commits
createNoCommit(st, e) ==
    LET session == get_session(st)
        f == Inserts(session, <<e>>, 1)
        id == session.seq
    IN IF e.kind \notin {"new", "bad"}
       THEN RolledBack(Raise(Rollback(session), "CouldNotCreateEntity", Eff(0, 0, {})))
       ELSE IF ~f.ok
       THEN RolledBack(Raise(Rollback(f.st), "CouldNotCreateEntity", Eff(0, 0, {})))
       ELSE Res(f.st, "ok", <<f.st.view[id]>>, <<id>>, Eff(0, 0, {}))

\* BaseRepository.create: add, commit, refresh; rollback and
\* CouldNotCreateEntityException on any failure.
create(st, e) ==
    LET session == get_session(st)
        f == Inserts(session, <<e>>, 1)
        id == session.seq
    IN Logged(st, "Creating", <<e>>, <<>>,
       IF e.kind \notin {"new", "bad"}
       THEN RolledBack(Raise(Rollback(session), "CouldNotCreateEntity", Eff(0, 0, {})))
       ELSE IF ~f.ok \/ session.fault = "commit"
       THEN RolledBack(Raise(Rollback(f.st), "CouldNotCreateEntity", Eff(1, 0, {})))
       ELSE IF session.fault = "refresh"
       THEN RolledBack(Raise(Rollback(Commit(f.st)), "CouldNotCreateEntity", Eff(1, 0, {})))
       ELSE Res(Commit(f.st), "ok", <<Commit(f.st).db[id]>>, <<id>>, Eff(1, 0, {})))

\* session.delete(entity) for every entity of es in order.  It raises for
\* what is no persisted entity, for an entity of another live session and
\* for a detached entity whose key an object of this session holds.  A
\* detached entity is attached again and its row deleted by primary key.
RECURSIVE Deletes(_, _, _)
Deletes(st, es, i) ==
    IF i > Len(es) THEN [st |-> st, ok |-> TRUE, det |-> {}]
    ELSE IF es[i].kind = "persistent"
    THEN LET r == Deletes([st EXCEPT !.view[es[i].key] = NoRow], es, i + 1)
         IN [r EXCEPT !.det = r.det \cup {st.view[es[i].key].id}]
    ELSE IF es[i].kind = "detached"
    THEN LET hit == WithId(st.view, es[i].key)
             r == Deletes([st EXCEPT !.view =
                               [o \in Oids |-> IF o \in hit THEN NoRow ELSE st.view[o]]],
                          es, i + 1)
         IN IF hit = {} THEN Deletes(st, es, i + 1)
            ELSE IF policy = "same" THEN [st |-> st, ok |-> FALSE, det |-> {}]
            ELSE [r EXCEPT !.det = r.det \cup {es[i].key}]
    ELSE [st |-> st, ok |-> FALSE, det |-> {}]

\* A delete_batch that keeps the deletes made before the rejected entity
delete_batchPartial(st, es) ==
    LET session == get_session(st)
        d == Deletes(session, es, 1)
    IN IF ~d.ok
       THEN RolledBack(Raise(Commit(d.st), "CouldNotDeleteEntity", Eff(0, 0, {})))
       ELSE IF session.fault = "commit"
       THEN RolledBack(Raise(Rollback(session), "CouldNotDeleteEntity", Eff(1, 0, {})))
       ELSE Res(Commit(d.st), "ok", <<>>, <<>>, Eff(1, 0, d.det))

\* BaseRepository.delete_batch: delete every entity, one commit; rollback
\* and CouldNotDeleteEntityException on any failure.
delete_batch(st, es) ==
    LET session == get_session(st)
        d == Deletes(session, es, 1)
    IN Logged(st, "Batch deleting", es, <<>>,
       IF ~d.ok
       THEN RolledBack(Raise(Rollback(session), "CouldNotDeleteEntity", Eff(0, 0, {})))
       ELSE IF session.fault = "commit"
       THEN RolledBack(Raise(Rollback(session), "CouldNotDeleteEntity", Eff(1, 0, {})))
       ELSE Res(Commit(d.st), "ok", <<>>, <<>>, Eff(1, 0, d.det)))

\* BaseRepository.delete: delete, commit, return the entity; rollback and
\* CouldNotDeleteEntityException on any failure.
delete(st, e) ==
    LET session == get_session(st)
        d == Deletes(session, <<e>>, 1)
        gone == IF e.kind = "persistent" THEN <<session.view[e.key]>> ELSE <<>>
    IN Logged(st, "Deleting", <<e>>, <<>>,
       IF ~d.ok
       THEN RolledBack(Raise(Rollback(session), "CouldNotDeleteEntity", Eff(0, 0, {})))
       ELSE IF session.fault = "commit"
       THEN RolledBack(Raise(Rollback(session), "CouldNotDeleteEntity", Eff(1, 0, {})))
       ELSE Res(Commit(d.st), "ok", gone, <<>>, Eff(1, 0, d.det)))

-----------------------------------------------------------------------------
(* Repository: the operations by id.  Its calls self._get, self._get_batch, *)
(* self._update, self._update_batch and self._delete are the BaseRepository *)
(* operations get, get_batch, update, update_batch and delete.              *)

\* The entity object a read hands to the next call of the same operation.
\* Under the fresh policy the session that loaded it is unreferenced when
\* the read returns; collected says whether it has been reclaimed by then.
Loaded(o, row, collected) ==
    IF policy = "same" THEN Persistent(o)
    ELSE IF collected THEN Detached(row.id) ELSE Foreign(row.id)

\* A get_by_id that commits the session it read with
get_by_idCommit(st, i) ==
    LET g == get(st, IdFilter(i))
    IN [g EXCEPT !.st = Commit(g.st), !.commits = g.commits + 1]

\* Repository.get_by_id
get_by_id(st, i) == get(st, IdFilter(i))

\* A get_batch_by_ids that takes an id without a match as an error
get_batch_by_idsStrict(st, ids) ==
    LET g == get_batch(st, <<IdInFilter({ids[i] : i \in 1..Len(ids)})>>)
    IN IF Len(g.result) < Cardinality({ids[i] : i \in 1..Len(ids)})
       THEN Raise(g.st, "EntityNotFound", Eff(0, 1, {}))
       ELSE g

\* Repository.get_batch_by_ids: the filter id IN entity_ids
get_batch_by_ids(st, ids) ==
    get_batch(st, <<IdInFilter({ids[i] : i \in 1..Len(ids)})>>)

\* Repository.update_by_id: get_by_id, then update
update_by_id(st, i, kw) ==
    LET g == get_by_id(st, i)
    IN IF g.outcome # "ok" THEN g
       ELSE After(g, update(g.st, Loaded(g.oids[1], g.result[1], FALSE), kw))

\* Repository.delete_by_id: get_by_id, then delete; returns None
delete_by_id(st, i, collected) ==
    LET g == get_by_id(st, i)
    IN IF g.outcome # "ok" THEN g
       ELSE [After(g, delete(g.st, Loaded(g.oids[1], g.result[1], collected)))
               EXCEPT !.result = <<>>]

\* Repository.update_batch_by_ids: get_batch_by_ids, then update_batch
update_batch_by_ids(st, ids, kw) ==
    LET g == get_batch_by_ids(st, ids)
    IN After(g, update_batch(g.st,
                    [i \in 1..Len(g.oids) |-> Loaded(g.oids[i], g.result[i], FALSE)], kw))

\* Repository.get_all: get_batch without filters
get_all(st) == get_batch(st, <<>>)

\* Repository.delete_batch_by_ids: get_batch_by_ids, then delete_batch
delete_batch_by_ids(st, ids, collected) ==
    LET g == get_batch_by_ids(st, ids)
    IN After(g, delete_batch(g.st,
                    [i \in 1..Len(g.oids) |-> Loaded(g.oids[i], g.result[i], collected)]))

-----------------------------------------------------------------------------
(* Entity type resolution.  Every repository class binds the generic       *)
(* parameter of BaseRepository to a type; _entity_class reads it from the   *)
(* class and is wrapped in lru_cache(maxsize=1), one cache for all classes, *)
(* with the class as key.                                                   *)
(*   cache      the entries of the lru_cache, least recently used first     *)
(*   resolved   per repository class, how often the body of _entity_class   *)
(*              has run for it                                              *)
(*   instances  the repository classes an instance has been made of         *)
(*   lastType   the class and the outcome of the last _entity_class call    *)

\* Repository classes, each with the type it binds: two entity types and
\* the types of test_create_repository_fail_invalid_entity_class.
RepoTypes ==
    {"PetRepository", "ShelterRepository", "IntRepository", "StrRepository",
     "BoolRepository", "ListRepository", "RepositoryRepository"}

\* get_args(getattr(cls, "__orig_bases__")[0])[0]
Bound(cls) ==
    CASE cls = "PetRepository" -> "Pet"
      [] cls = "ShelterRepository" -> "Shelter"
      [] cls = "IntRepository" -> "int"
      [] cls = "StrRepository" -> "str"
      [] cls = "BoolRepository" -> "bool"
      [] cls = "ListRepository" -> "list"
      [] cls = "RepositoryRepository" -> "BaseRepository"

\* issubclass(entity_class, SQLModelEntity)
IsEntity(t) == t \in {"Pet", "Shelter"}

\* lru_cache(maxsize=1)
maxsize == 1

Types(c, r) == [cache |-> c, resolved |-> r]
TypesNow == Types(cache, resolved)

\* The lru_cache with a new entry: the least recently used one goes when
\* the cache is full
Put(c, entry) == IF Len(c) < maxsize THEN Append(c, entry) ELSE Append(Tail(c), entry)

\* The lru_cache after a hit on entry: it is the most recently used
Touch(c, entry) == Append(SelectSeq(c, LAMBDA x : x # entry), entry)

\* An _entity_class that falls back to the base entity for a bound type
\* that is no entity
entity_classDefault(ts, cls) ==
    LET hit == {i \in 1..Len(ts.cache) : ts.cache[i].cls = cls}
        t == Bound(cls)
        ts1 == [ts EXCEPT !.resolved[cls] = @ + 1]
        entry == [cls |-> cls, entity |-> IF IsEntity(t) THEN t ELSE "SQLModelEntity"]
    IN IF hit # {}
       THEN LET old == ts.cache[CHOOSE i \in hit : TRUE]
            IN [ts |-> [ts EXCEPT !.cache = Touch(ts.cache, old)], outcome |-> "ok",
                entity |-> old.entity]
       ELSE [ts |-> [ts1 EXCEPT !.cache = Put(ts.cache, entry)], outcome |-> "ok",
             entity |-> entry.entity]

\* BaseRepository._entity_class, called on the class cls.  A hit of the
\* cache returns the cached type; otherwise the body runs: it reads the
\* bound type and raises TypeError when that is no subclass of
\* SQLModelEntity (an exception is not cached), else the type is cached
\* and returned.
entity_class(ts, cls) ==
    LET hit == {i \in 1..Len(ts.cache) : ts.cache[i].cls = cls}
        t == Bound(cls)
        ts1 == [ts EXCEPT !.resolved[cls] = @ + 1]
    IN IF hit # {}
       THEN LET old == ts.cache[CHOOSE i \in hit : TRUE]
            IN [ts |-> [ts EXCEPT !.cache = Touch(ts.cache, old)], outcome |-> "ok",
                entity |-> old.entity]
       ELSE IF ~IsEntity(t) THEN [ts |-> ts1, outcome |-> "TypeError", entity |-> "none"]
       ELSE [ts |-> [ts1 EXCEPT !.cache = Put(ts.cache, [cls |-> cls, entity |-> t])],
             outcome |-> "ok", entity |-> t]

\* BaseRepository.__init__: self.entity = self._entity_class() first; the
\* instance exists only when that returns.
init(ts, insts, cls) ==
    LET r == entity_class(ts, cls)
    IN [ts |-> r.ts, outcome |-> r.outcome, entity |-> r.entity,
        instances |-> IF r.outcome = "ok" THEN insts \cup {cls} ELSE insts]

\* The repository class of the store of the model
TheRepository == "PetRepository"

\* The operations of Repository that call self._entity_class():
\* get_batch_by_ids and the two operations built on it
ByIdsOps == {"get_batch_by_ids", "update_batch_by_ids", "delete_batch_by_ids"}

-----------------------------------------------------------------------------
(* python_repository: BaseRepository and Repository of repository.py, whose *)
(* operations each run in a session of their own inside session(), and the  *)
(* RepositoryController of repository_controller.py, whose operations work  *)
(* on the session the caller passes.                                        *)

\* What an operation leaves behind: the session state, how it ended, how
\* the body of its with block ended, the entities returned, the calls made
\* on its sessions in order, the ids of the entities it deleted.
PyRes(st, outcome, result, calls, det) ==
    [st |-> st, outcome |-> outcome, body |-> outcome, result |-> result,
     calls |-> calls, det |-> det]

\* session.close(): what the session holds is dropped
Close(st) == [st EXCEPT !.view = st.db]

\* A session() that closes the session and never rolls it back
py_sessionCloseOnly(b) ==
    [b EXCEPT !.st = Close(b.st), !.calls = b.calls \o <<"close">>]

\* BaseRepository.session around a with block that ended as b: the except
\* clause rolls back and raises again, the finally clause closes
py_session(b) ==
    IF b.body # "ok"
    THEN [b EXCEPT !.st = Close(Rollback(b.st)), !.calls = b.calls \o <<"rollback", "close">>]
    ELSE [b EXCEPT !.st = Close(b.st), !.calls = b.calls \o <<"close">>]

\* BaseRepository._create (Repository.create): add, commit, refresh in the
\* with block, any exception of these raised again as
\* CouldNotCreateEntityException inside the block
py_create(st, e) ==
    LET session == Fresh(st)
        f == Inserts(session, <<e>>, 1)
        id == session.seq
    IN py_session(
           IF e.kind \notin {"new", "bad"}
           THEN PyRes(session, "CouldNotCreateEntity", <<>>, <<"add">>, {})
           ELSE IF ~f.ok \/ session.fault = "commit"
           THEN PyRes(f.st, "CouldNotCreateEntity", <<>>, <<"add", "commit">>, {})
           ELSE IF session.fault = "refresh"
           THEN PyRes(Commit(f.st), "CouldNotCreateEntity", <<>>,
                      <<"add", "commit", "refresh">>, {})
           ELSE PyRes(Commit(f.st), "ok", <<Commit(f.st).db[id]>>,
                      <<"add", "commit", "refresh">>, {}))

\* BaseRepository._get (Repository.get).  bound says that the repository
\* class defines the attribute entity, which BaseRepository only declares;
\* without it self.entity raises inside the with block.  With it the query
\* runs, and EntityNotFoundException is raised after the block.
py_get(st, i, bound) ==
    LET session == Fresh(st)
        os == OidSeq(QueryOids(session.view, <<IdFilter(i)>>))
    IN IF ~bound THEN py_session(PyRes(session, "AttributeError", <<>>, <<>>, {}))
       ELSE LET r == py_session(PyRes(session, "ok",
                                      IF os = <<>> THEN <<>> ELSE <<session.view[os[1]]>>,
                                      <<"query">>, {}))
            IN IF os = <<>> THEN [r EXCEPT !.outcome = "EntityNotFound"] ELSE r

\* BaseRepository._get_all (Repository.get_all with no filters,
\* Repository.get_batch with the filter id IN ids): filter_by(*filters)
\* takes keyword arguments only and raises TypeError for any filter.
py_get_all(st, filters, bound) ==
    LET session == Fresh(st)
        os == OidSeq(QueryOids(session.view, filters))
    IN IF ~bound THEN py_session(PyRes(session, "AttributeError", <<>>, <<>>, {}))
       ELSE IF filters # <<>> THEN py_session(PyRes(session, "TypeError", <<>>, <<"query">>, {}))
       ELSE py_session(PyRes(session, "ok", RowsOf(session.view, os), <<"query">>, {}))

\* BaseRepository._update (Repository.update): setattr for every keyword
\* that is not None, commit, refresh.  The entity belongs to no session,
\* as every session is closed by the operation that used it: the commit
\* writes nothing and refresh raises.  No exception is mapped.
py_update(st, e, kw) ==
    LET session == Fresh(st)
        a == SetAttrs(NoRow, kw, 1)
    IN py_session(
           IF a.bad \/ (e.kind = "str" /\ \E j \in 1..Len(kw) : ~kw[j].none)
           THEN PyRes(session, "RawException", <<>>, <<>>, {})
           ELSE IF session.fault = "commit"
           THEN PyRes(session, "RawException", <<>>, <<"commit">>, {})
           ELSE PyRes(session, "RawException", <<>>, <<"commit", "refresh">>, {}))

\* BaseRepository._delete (Repository.delete): delete, commit in the with
\* block, any exception raised again as CouldNotDeleteEntityException
py_delete(st, e) ==
    LET session == Fresh(st)
        d == Deletes(session, <<e>>, 1)
    IN py_session(
           IF ~d.ok THEN PyRes(session, "CouldNotDeleteEntity", <<>>, <<"delete">>, {})
           ELSE IF session.fault = "commit"
           THEN PyRes(d.st, "CouldNotDeleteEntity", <<>>, <<"delete", "commit">>, {})
           ELSE PyRes(Commit(d.st), "ok", <<>>, <<"delete", "commit">>, d.det))

\* b after a in one operation: the calls and the deleted ids add up
PyAfter(a, b) == [b EXCEPT !.calls = a.calls \o b.calls, !.det = a.det \cup b.det]

\* Repository.delete_batch: self._delete for every entity in order, each
\* in a session of its own; an exception ends the loop
RECURSIVE py_delete_batch(_, _)
py_delete_batch(st, es) ==
    IF es = <<>> THEN PyRes(st, "ok", <<>>, <<>>, {})
    ELSE LET r == py_delete(st, es[1])
         IN IF r.outcome # "ok" THEN r
            ELSE PyAfter(r, py_delete_batch([r.st EXCEPT !.fault = st.fault], Tail(es)))

\* Repository.get_batch: the filter id IN entity_ids handed to _get_all
py_get_batch(st, ids, bound) ==
    py_get_all(st, <<IdInFilter({ids[i] : i \in 1..Len(ids)})>>, bound)

\* Repository.delete_batch_by_ids: get_batch, then delete_batch
py_delete_batch_by_ids(st, ids, bound) ==
    LET g == py_get_batch(st, ids, bound)
    IN IF g.outcome # "ok" THEN g
       ELSE PyAfter(g, py_delete_batch(g.st, [i \in 1..Len(g.result) |-> Detached(g.result[i].id)]))

\* RepositoryController.add, on a class that is the mapped entity class:
\* cls(**kwargs), add, commit, refresh on the session passed
controller_add(st, e) ==
    LET f == Inserts(st, <<e>>, 1)
        id == st.seq
    IN IF ~f.ok THEN PyRes(f.st, "RawException", <<>>, <<"add", "commit">>, {})
       ELSE PyRes(Commit(f.st), "ok", <<Commit(f.st).db[id]>>, <<"add", "commit", "refresh">>, {})

\* RepositoryController.get_all: query with the filter id IN ids, all()
controller_get_all(st, ids) ==
    LET os == OidSeq(QueryOids(st.view, <<IdInFilter({ids[i] : i \in 1..Len(ids)})>>))
    IN [PyRes(st, "ok", RowsOf(st.view, os), <<"query">>, {}) EXCEPT !.body = os]

\* map(function, iterable): an iterator nobody takes an element from; the
\* function is applied to none of the objects
map(st, objects) == [st |-> st, det |-> {}]

\* RepositoryController.delete_all: get_all, the map over the objects,
\* commit, the objects returned
controller_delete_all(st, ids) ==
    LET g == controller_get_all(st, ids)
        m == map(g.st, g.result)
    IN PyRes(Commit(m.st), "ok", g.result, <<"query", "commit">>, m.det)

\* RepositoryController.delete: get with one(), delete, commit
controller_delete(st, i) ==
    LET os == OidSeq(QueryOids(st.view, <<IdFilter(i)>>))
    IN IF os = <<>> THEN PyRes(st, "NoResultFound", <<>>, <<"query">>, {})
       ELSE PyRes(Commit([st EXCEPT !.view[os[1]] = NoRow]), "ok", <<st.view[os[1]]>>,
                  <<"query", "delete", "commit">>, {i})

-----------------------------------------------------------------------------
(* Session management shared by the threads of a process: the SessionManager *)
(* of database_tools and the context-local session of context.py.           *)
(*   managers         the SessionManager objects created so far, each with  *)
(*                    its _database_uri and the database of its _engine     *)
(*   instance         SessionManager._instance: 0 is None, else the index   *)
(*                    of the object in managers                             *)
(*   lock             the thread that holds SessionManager._lock, 0 if none *)
(*   session_context  the dict that is the default of the ContextVar: its   *)
(*                    "session" entry, 0 when the key is missing            *)
(*   threads          per thread, each with a context of its own: where it  *)
(*                    is, and its local variables                           *)

Threads == 1..MaxThreads

\* The databases of the test setups (conftest.py Databases)
Uris == {"postgresql", "sqlite"}

\* A thread: pc is the line it is about to run; uri the argument of the
\* constructor call at hand; obj what __new__ returned; held the uri given
\* to its last constructor call that returned; bound the database of the
\* session it took from that manager; session the local variable of
\* get_session; got the session get_session last returned to it.
Idle ==
    [pc |-> "idle", uri |-> "none", obj |-> 0, held |-> "none", bound |-> "none",
     session |-> 0, got |-> 0]

\* object.__new__(cls): an object without attributes
NewManager == [uri |-> "none", engine |-> "none"]

\* A __new__ that creates an object whenever it gets the lock
new_lockedAlways(ms, inst) ==
    [managers |-> Append(ms, NewManager), instance |-> Len(ms) + 1]

\* SessionManager.__new__, lines 21-22, run with the lock held: the second
\* look at _instance, the object is created only when that is still None
new_locked(ms, inst) ==
    IF inst = 0 THEN [managers |-> Append(ms, NewManager), instance |-> Len(ms) + 1]
    ELSE [managers |-> ms, instance |-> inst]

\* session_context.get() in the context of thread t.  No code sets the
\* variable in any context, so every context gets the default: one dict.
context_get(ctx, t) == ctx

\* _get_session(): context.get("session"), None (0) when the key is missing
get_context_session(ctx, t) == context_get(ctx, t)

\* No SessionManager built, no session in a context
InitShared ==
    /\ threads = [t \in Threads |-> Idle]
    /\ managers = <<>>
    /\ instance = 0
    /\ lock = 0
    /\ session_context = 0

-----------------------------------------------------------------------------
(* The state machine *)

NoOp == [op |-> "init", outcome |-> "ok"]

\* The state after construction of the repository: an empty store, no
\* session used yet, the entity type of the repository resolved.
Init ==
    /\ db = [o \in Oids |-> NoRow]
    /\ view = [o \in Oids |-> NoRow]
    /\ seq = 1
    /\ deleted = {}
    /\ policy \in Policies
    /\ lastOp = NoOp
    /\ LET made == init(Types(<<>>, [c \in RepoTypes |-> 0]), {}, TheRepository)
       IN /\ cache = made.ts.cache
          /\ resolved = made.ts.resolved
          /\ instances = made.instances
          /\ lastType = [cls |-> TheRepository, outcome |-> made.outcome]
    /\ InitShared

\* The caller sees the outcome r of operation op; a fresh session is gone
\* when the operation returns.  The operations by a list of ids have called
\* _entity_class on the class of the repository.
Return(op, r) ==
    /\ db' = r.st.db
    /\ view' = IF policy = "fresh" THEN r.st.db ELSE r.st.view
    /\ seq' = r.st.seq
    /\ deleted' = deleted \cup r.det
    /\ policy' = policy
    /\ lastOp' = [op |-> op, outcome |-> r.outcome]
    /\ LET t == entity_class(TypesNow, TheRepository)
       IN IF op \in ByIdsOps
          THEN /\ cache' = t.ts.cache
               /\ resolved' = t.ts.resolved
               /\ lastType' = [cls |-> TheRepository, outcome |-> t.outcome]
          ELSE UNCHANGED <<cache, resolved, lastType>>
    /\ instances' = instances
    /\ UNCHANGED shared

\* Entities the caller can construct
ValidEntities == {NewEntity("a", 1), NewEntity("b", 2)}
NewEntities == ValidEntities \cup {BadEntity, NonEntity}

\* Entity objects the caller holds from earlier operations: under the shared
\* session the attached entity of every row and the detached entities of
\* deleted rows; under the fresh policy an object for every id given out,
\* whose session is reclaimed or not.
Held(st) ==
    IF policy = "same"
    THEN {Persistent(o) : o \in Live(st.view)} \cup {Detached(i) : i \in deleted}
    ELSE {Detached(i) : i \in 1..(st.seq - 1)} \cup {Foreign(i) : i \in 1..(st.seq - 1)}

EntityArgs(st) == Held(st) \cup {NewEntity("a", 1), NonEntity}

NoRepeat(es) == \A i, j \in 1..Len(es) : i # j => es[i] # es[j]
EntityLists(st) == {es \in SeqsUpTo(EntityArgs(st), MaxBatch) : NoRepeat(es)}
NewLists == SeqsUpTo(NewEntities, MaxBatch)
IdLists == SeqsUpTo(Oids, MaxBatch)

\* The caller names a new id only for one entity and only an id no entity of
\* the session has: two rows with one id are the engine's constraint
\* violation, which the INSERT of create covers.
SetsId(kw) == \E j \in 1..Len(kw) : kw[j].key = "id" /\ ~kw[j].none
IdFree(st, n, kw) == SetsId(kw) => n <= 1 /\ WithId(st.view, MaxId) = {}
Attached(es) == Cardinality({i \in 1..Len(es) : es[i].kind = "persistent"})
Found(st, ids) == Cardinality(QueryOids(get_session(st).view, <<IdInFilter({ids[i] : i \in 1..Len(ids)})>>))

\* An engine fault is explored with change sets of at most one keyword.
FaultInput(kw, f) == f = "none" \/ Len(kw) <= 1

\* The sequence stays within the rows of the model.
Room(st, n) == st.seq + n <= MaxId + 1

\* A logger whose sink raises is explored with the calls for one entity
\* that have no keyword arguments and no engine fault.
SinkInput(f, kw, k) == k = {} \/ (f = "none" /\ kw = <<>>)

\* The repository the call is made on: the engine fault f at hand and a
\* logger whose sink raises at the levels k
Called(f, k) == WithSink(Faulty(Cur, f), k)

Create(e, f, k) ==
    /\ Room(Cur, 1)
    /\ SinkInput(f, <<>>, k)
    /\ Return("create", create(Called(f, k), e))

CreateBatch(es, f) ==
    /\ Room(Cur, Len(es))
    /\ Return("create_batch", create_batch(Faulty(Cur, f), es))

GetBatchByIds(ids) == Return("get_batch_by_ids", get_batch_by_ids(Cur, ids))

GetAll == Return("get_all", get_all(Cur))

Get(i, k) == Return("get", get(Called("none", k), IdFilter(i)))

Find(kw) == Return("find", find(Cur, kw))

Update(e, kw, f, k) ==
    /\ FaultInput(kw, f)
    /\ SinkInput(f, kw, k)
    /\ IdFree(Cur, 1, kw)
    /\ Return("update", update(Called(f, k), e, kw))

UpdateBatch(es, kw, f) ==
    /\ FaultInput(kw, f)
    /\ IdFree(Cur, Attached(es), kw)
    /\ Return("update_batch", update_batch(Faulty(Cur, f), es, kw))

Delete(e, f, k) ==
    /\ SinkInput(f, <<>>, k)
    /\ Return("delete", delete(Called(f, k), e))

DeleteBatch(es, f) == Return("delete_batch", delete_batch(Faulty(Cur, f), es))

DeleteBatchByIds(ids, collected) ==
    Return("delete_batch_by_ids", delete_batch_by_ids(Cur, ids, collected))

UpdateById(i, kw) ==
    /\ IdFree(Cur, 1, kw)
    /\ Return("update_by_id", update_by_id(Cur, i, kw))

DeleteById(i, collected) == Return("delete_by_id", delete_by_id(Cur, i, collected))

UpdateBatchByIds(ids, kw) ==
    /\ IdFree(Cur, Found(Cur, ids), kw)
    /\ Return("update_batch_by_ids", update_batch_by_ids(Cur, ids, kw))

Next ==
    \/ \E e \in NewEntities, f \in Faults, k \in Sinks : Create(e, f, k)
    \/ \E es \in NewLists, f \in Faults : CreateBatch(es, f)
    \/ \E ids \in IdLists : GetBatchByIds(ids)
    \/ GetAll
    \/ \E ids \in IdLists, collected \in BOOLEAN : DeleteBatchByIds(ids, collected)
    \/ \E i \in Oids, k \in Sinks : Get(i, k)
    \/ \E kw \in ChangeSets : Find(kw)
    \/ \E e \in EntityArgs(Cur), kw \in ChangeSets, f \in Faults, k \in Sinks : Update(e, kw, f, k)
    \/ \E es \in EntityLists(Cur), kw \in ChangeSets, f \in Faults : UpdateBatch(es, kw, f)
    \/ \E e \in EntityArgs(Cur), f \in Faults, k \in Sinks : Delete(e, f, k)
    \/ \E es \in EntityLists(Cur), f \in Faults : DeleteBatch(es, f)
    \/ \E i \in Oids, kw \in ChangeSets : UpdateById(i, kw)
    \/ \E i \in Oids, collected \in BOOLEAN : DeleteById(i, collected)
    \/ \E ids \in IdLists, kw \in ChangeSets : UpdateBatchByIds(ids, kw)

Spec == Init /\ [][Next]_vars

-----------------------------------------------------------------------------
(* Repository classes are defined, instantiated and used side by side.      *)

RECURSIVE Total(_, _)
Total(f, S) ==
    IF S = {} THEN 0
    ELSE LET c == CHOOSE x \in S : TRUE IN f[c] + Total(f, S \ {c})

\* A behaviour runs the body of _entity_class at most MaxRuns times.
CanRun(cls) ==
    \/ \E i \in 1..Len(cache) : cache[i].cls = cls
    \/ Total(resolved, RepoTypes) < MaxRuns

\* No repository class is in use yet.
InitTypes ==
    /\ db = [o \in Oids |-> NoRow]
    /\ view = [o \in Oids |-> NoRow]
    /\ seq = 1
    /\ deleted = {}
    /\ policy \in Policies
    /\ lastOp = NoOp
    /\ cache = <<>>
    /\ resolved = [c \in RepoTypes |-> 0]
    /\ instances = {}
    /\ lastType = [cls |-> "none", outcome |-> "ok"]
    /\ InitShared

\* cls(): the constructor of a repository class
Construct(cls) ==
    /\ CanRun(cls)
    /\ LET r == init(TypesNow, instances, cls)
       IN /\ cache' = r.ts.cache
          /\ resolved' = r.ts.resolved
          /\ instances' = r.instances
          /\ lastType' = [cls |-> cls, outcome |-> r.outcome]
    /\ UNCHANGED <<db, view, seq, deleted, policy, lastOp>>
    /\ UNCHANGED shared

\* cls._entity_class(), called on the class as the unit tests do
EntityClass(cls) ==
    /\ CanRun(cls)
    /\ LET r == entity_class(TypesNow, cls)
       IN /\ cache' = r.ts.cache
          /\ resolved' = r.ts.resolved
          /\ lastType' = [cls |-> cls, outcome |-> r.outcome]
    /\ UNCHANGED <<db, view, seq, deleted, policy, lastOp, instances>>
    /\ UNCHANGED shared

\* get_batch_by_ids on an instance of cls: self._entity_class(), then the
\* read of the store of that class, which changes no store
GetBatchByIdsOn(cls) ==
    /\ cls \in instances
    /\ CanRun(cls)
    /\ LET r == entity_class(TypesNow, cls)
       IN /\ cache' = r.ts.cache
          /\ resolved' = r.ts.resolved
          /\ lastType' = [cls |-> cls, outcome |-> r.outcome]
    /\ lastOp' = [op |-> "get_batch_by_ids", outcome |-> "ok"]
    /\ UNCHANGED <<db, view, seq, deleted, policy, instances>>
    /\ UNCHANGED shared

NextTypes ==
    \/ \E cls \in RepoTypes : Construct(cls)
    \/ \E cls \in RepoTypes : EntityClass(cls)
    \/ \E cls \in RepoTypes : GetBatchByIdsOn(cls)

SpecTypes == InitTypes /\ [][NextTypes]_vars

-----------------------------------------------------------------------------
(* Threads build SessionManagers and take sessions, one line at a time.     *)

\* The state of the process with the store of no repository in use
InitThreads ==
    /\ db = [o \in Oids |-> NoRow]
    /\ view = [o \in Oids |-> NoRow]
    /\ seq = 1
    /\ deleted = {}
    /\ policy \in Policies
    /\ lastOp = NoOp
    /\ cache = <<>>
    /\ resolved = [c \in RepoTypes |-> 0]
    /\ instances = {}
    /\ lastType = [cls |-> "none", outcome |-> "ok"]
    /\ InitShared

\* Thread t moves to line pc with the locals changed as given
At(t, pc) == threads[t].pc = pc
Goto(t, rec) == threads' = [threads EXCEPT ![t] = rec]

\* SessionManager(database_uri=uri) is called
CallSessionManager(t, uri) ==
    /\ At(t, "idle")
    /\ Goto(t, [threads[t] EXCEPT !.pc = "new_check", !.uri = uri, !.obj = 0,
                                  !.held = "none", !.bound = "none"])
    /\ UNCHANGED <<managers, instance, lock, session_context>>
    /\ UNCHANGED <<store, types>>

\* __new__ line 19: if cls._instance is None
NewCheck(t) ==
    /\ At(t, "new_check")
    /\ Goto(t, [threads[t] EXCEPT !.pc = IF instance = 0 THEN "new_lock" ELSE "new_return"])
    /\ UNCHANGED <<managers, instance, lock, session_context>>
    /\ UNCHANGED <<store, types>>

\* __new__ line 20: with cls._lock, taken when no thread holds it
NewLock(t) ==
    /\ At(t, "new_lock")
    /\ lock = 0
    /\ lock' = t
    /\ Goto(t, [threads[t] EXCEPT !.pc = "new_locked"])
    /\ UNCHANGED <<managers, instance, session_context>>
    /\ UNCHANGED <<store, types>>

\* __new__ lines 21-22 and the end of the with block
NewLocked(t) ==
    /\ At(t, "new_locked")
    /\ lock = t
    /\ LET r == new_locked(managers, instance)
       IN /\ managers' = r.managers
          /\ instance' = r.instance
    /\ lock' = 0
    /\ Goto(t, [threads[t] EXCEPT !.pc = "new_return"])
    /\ UNCHANGED session_context
    /\ UNCHANGED <<store, types>>

\* __new__ line 23: return cls._instance
NewReturn(t) ==
    /\ At(t, "new_return")
    /\ Goto(t, [threads[t] EXCEPT !.pc = "init_uri", !.obj = instance])
    /\ UNCHANGED <<managers, instance, lock, session_context>>
    /\ UNCHANGED <<store, types>>

\* __init__ line 39, run on what __new__ returned: self._database_uri = database_uri
InitUri(t) ==
    /\ At(t, "init_uri")
    /\ managers' = [managers EXCEPT ![threads[t].obj].uri = threads[t].uri]
    /\ Goto(t, [threads[t] EXCEPT !.pc = "init_engine"])
    /\ UNCHANGED <<instance, lock, session_context>>
    /\ UNCHANGED <<store, types>>

\* __init__ line 40: self._engine = self._get_engine(), an engine for
\* self._database_uri as it is now; the constructor call returns
InitEngine(t) ==
    /\ At(t, "init_engine")
    /\ managers' = [managers EXCEPT ![threads[t].obj].engine = managers[threads[t].obj].uri]
    /\ Goto(t, [threads[t] EXCEPT !.pc = "idle", !.held = threads[t].uri])
    /\ UNCHANGED <<instance, lock, session_context>>
    /\ UNCHANGED <<store, types>>

\* next(manager.get_session()) on the manager the thread holds: a
\* Session(self._engine) on the engine the manager has now
ManagerGetSession(t) ==
    /\ At(t, "idle")
    /\ threads[t].held # "none"
    /\ Goto(t, [threads[t] EXCEPT !.bound = managers[threads[t].obj].engine])
    /\ UNCHANGED <<managers, instance, lock, session_context>>
    /\ UNCHANGED <<store, types>>

\* context.get_session() is called; line 24: session = _get_session()
ContextGet(t) ==
    /\ At(t, "idle")
    /\ LET session == get_context_session(session_context, t)
       IN Goto(t, [threads[t] EXCEPT !.session = session, !.got = 0,
                                     !.pc = IF session = 0 THEN "open" ELSE "return"])
    /\ UNCHANGED <<managers, instance, lock, session_context>>
    /\ UNCHANGED <<store, types>>

\* line 26: session = next(session_manager.get_session()), a new session
\* named after the thread that opened it
ContextOpen(t) ==
    /\ At(t, "open")
    /\ Goto(t, [threads[t] EXCEPT !.session = t, !.pc = "set"])
    /\ UNCHANGED <<managers, instance, lock, session_context>>
    /\ UNCHANGED <<store, types>>

\* line 27: _set_session(session), context["session"] = session
ContextSet(t) ==
    /\ At(t, "set")
    /\ session_context' = threads[t].session
    /\ Goto(t, [threads[t] EXCEPT !.pc = "return"])
    /\ UNCHANGED <<managers, instance, lock>>
    /\ UNCHANGED <<store, types>>

\* line 28: return session
ContextReturn(t) ==
    /\ At(t, "return")
    /\ Goto(t, [threads[t] EXCEPT !.got = threads[t].session, !.pc = "idle"])
    /\ UNCHANGED <<managers, instance, lock, session_context>>
    /\ UNCHANGED <<store, types>>

NextThreads ==
    \/ \E t \in Threads, uri \in Uris : CallSessionManager(t, uri)
    \/ \E t \in Threads : NewCheck(t)
    \/ \E t \in Threads : NewLock(t)
    \/ \E t \in Threads : NewLocked(t)
    \/ \E t \in Threads : NewReturn(t)
    \/ \E t \in Threads : InitUri(t)
    \/ \E t \in Threads : InitEngine(t)
    \/ \E t \in Threads : ManagerGetSession(t)
    \/ \E t \in Threads : ContextGet(t)
    \/ \E t \in Threads : ContextOpen(t)
    \/ \E t \in Threads : ContextSet(t)
    \/ \E t \in Threads : ContextReturn(t)

SpecThreads == InitThreads /\ [][NextThreads]_vars

-----------------------------------------------------------------------------
(* The operations of python_repository on one store *)

\* An empty store; every operation of Repository takes a session of its own
InitPy ==
    /\ db = [o \in Oids |-> NoRow]
    /\ view = [o \in Oids |-> NoRow]
    /\ seq = 1
    /\ deleted = {}
    /\ policy = "fresh"
    /\ lastOp = NoOp
    /\ cache = <<>>
    /\ resolved = [c \in RepoTypes |-> 0]
    /\ instances = {}
    /\ lastType = [cls |-> "none", outcome |-> "ok"]
    /\ InitShared

\* The caller sees the outcome r of operation op
PyReturn(op, r) ==
    /\ db' = r.st.db
    /\ view' = r.st.view
    /\ seq' = r.st.seq
    /\ deleted' = deleted \cup r.det
    /\ policy' = policy
    /\ lastOp' = [op |-> op, outcome |-> r.outcome]
    /\ UNCHANGED <<types, shared>>

\* The entity objects the caller holds: one for every id given out, in no
\* session
PyArgs(st) == {Detached(i) : i \in 1..(st.seq - 1)} \cup {NewEntity("a", 1), NonEntity}
PyLists(st) == {es \in SeqsUpTo(PyArgs(st), MaxBatch) : NoRepeat(es)}

PyCreate(e, f) ==
    /\ Room(Cur, 1)
    /\ PyReturn("_create", py_create(Faulty(Cur, f), e))

PyGet(i, bound) == PyReturn("_get", py_get(Cur, i, bound))

PyGetAll(bound) == PyReturn("_get_all", py_get_all(Cur, <<>>, bound))

PyGetBatch(ids, bound) == PyReturn("get_batch", py_get_batch(Cur, ids, bound))

PyUpdate(e, kw, f) ==
    /\ FaultInput(kw, f)
    /\ PyReturn("_update", py_update(Faulty(Cur, f), e, kw))

PyDelete(e, f) == PyReturn("_delete", py_delete(Faulty(Cur, f), e))

PyDeleteBatch(es, f) == PyReturn("delete_batch", py_delete_batch(Faulty(Cur, f), es))

PyDeleteBatchByIds(ids, bound) ==
    PyReturn("delete_batch_by_ids", py_delete_batch_by_ids(Cur, ids, bound))

ControllerAdd(e) ==
    /\ Room(Cur, 1)
    /\ e.kind \in {"new", "bad"}
    /\ PyReturn("add", controller_add(Cur, e))

ControllerGetAll(ids) == PyReturn("get_all", controller_get_all(Cur, ids))

ControllerDeleteAll(ids) == PyReturn("delete_all", controller_delete_all(Cur, ids))

ControllerDelete(i) == PyReturn("delete", controller_delete(Cur, i))

NextPy ==
    \/ \E e \in NewEntities, f \in Faults : PyCreate(e, f)
    \/ \E i \in Oids, bound \in BOOLEAN : PyGet(i, bound)
    \/ \E bound \in BOOLEAN : PyGetAll(bound)
    \/ \E ids \in IdLists, bound \in BOOLEAN : PyGetBatch(ids, bound)
    \/ \E e \in PyArgs(Cur), kw \in ChangeSets, f \in Faults : PyUpdate(e, kw, f)
    \/ \E e \in PyArgs(Cur), f \in Faults : PyDelete(e, f)
    \/ \E es \in PyLists(Cur), f \in Faults : PyDeleteBatch(es, f)
    \/ \E ids \in IdLists, bound \in BOOLEAN : PyDeleteBatchByIds(ids, bound)
    \/ \E e \in NewEntities : ControllerAdd(e)
    \/ \E ids \in IdLists : ControllerGetAll(ids)
    \/ \E ids \in IdLists : ControllerDeleteAll(ids)
    \/ \E i \in Oids : ControllerDelete(i)

SpecPy == InitPy /\ [][NextPy]_vars

\* The rows are well formed, no two rows of the session share an id, and a
\* fresh session leaves nothing behind.
TypeOK ==
    /\ db \in [Oids -> {NoRow} \cup {Row(i, n, a) : i \in Oids, n \in Names, a \in Ages}]
    /\ view \in [Oids -> {NoRow} \cup {Row(i, n, a) : i \in Oids, n \in Names, a \in Ages}]
    /\ \A o1, o2 \in Live(view) : view[o1].id = view[o2].id => o1 = o2
    /\ seq \in 1..(MaxId + 1)
    /\ deleted \subseteq Oids
    /\ policy = "fresh" => view = db
    /\ Len(cache) <= maxsize
    /\ resolved \in [RepoTypes -> 0..MaxRuns]
    /\ instances \subseteq RepoTypes
    /\ instance \in 0..Len(managers)
    /\ lock \in {0} \cup Threads
    /\ session_context \in {0} \cup Threads

-----------------------------------------------------------------------------
(* Properties.  An operation applied to the current state and every input   *)
(* of its action gives the outcome the property is about.                   *)

\* The session an operation called now works on, and the rows of that
\* session an entity argument names by its id
SessionNow == get_session(Cur)
Stored(e) ==
    IF EntityIdFilter(SessionNow, e).none THEN {}
    ELSE WithId(SessionNow.view, EntityIdFilter(SessionNow, e).n)

C2_CreateBatchAllOrNothing ==
    \A es \in NewLists :
        (Room(Cur, Len(es)) /\ \E i \in 1..Len(es) : es[i].kind # "new") =>
            LET r == create_batch(Cur, es)
            IN /\ r.outcome = "CouldNotCreateEntity"
               /\ r.result = <<>>
               /\ r.st.db = db
               /\ Commit(r.st).db = db

\* A create_batch has just failed after the INSERT of an earlier element of
\* its list, and the store is empty.
C2_Witness ==
    /\ lastOp = [op |-> "create_batch", outcome |-> "CouldNotCreateEntity"]
    /\ seq >= 3
    /\ Live(db) = {} /\ Live(view) = {}

\* C3: update(e, attr=None) changes nothing stored; update(e, attr=value)
\* with a value that is not None makes the stored attribute of e that value
\* and leaves every other attribute of e and every other stored entity as
\* they were.
C3_UpdateChangesExactlyThat ==
    \A e \in Held(Cur), p \in KwPairs :
        (p.key \in {"name", "age"} /\ Stored(e) # {}) =>
            LET r == update(Cur, e, <<p>>)
            IN \A o \in Oids :
                   r.st.db[o] = IF o \in Stored(e) /\ ~p.none THEN SetAttr(db[o], p)
                                ELSE db[o]

\* C4: under either session policy an update of a stored entity returns the
\* entity with the new value, and a get of its id right after it reads the
\* new value.
C4_UpdateDurable ==
    \A e \in Held(Cur) :
        Stored(e) # {} =>
            LET r == update(Cur, e, <<Kw("name", FALSE, "b", 0)>>)
                g == get(r.st, EntityIdFilter(SessionNow, e))
            IN /\ r.outcome = "ok" /\ r.result[1].name = "b"
               /\ g.outcome = "ok" /\ g.result[1].name = "b"

\* C5: once an entity has been deleted, a get of its id raises
\* EntityNotFoundException in every later state.
C5_DeletedStaysGone ==
    \A i \in deleted : get(Cur, IdFilter(i)).outcome = "EntityNotFound"

\* C6: get(id) returns the entity of the one row with that id, raises
\* EntityNotFoundException when no row has it, and in no state returns
\* None or an entity with another id.
C6_GetByIdOrNotFound ==
    \A i \in Oids :
        LET g == get(Cur, IdFilter(i))
            m == WithId(SessionNow.view, i)
        IN /\ Cardinality(m) = 1 =>
                 g.outcome = "ok" /\ \E o \in m : g.result = <<SessionNow.view[o]>>
           /\ m = {} => g.outcome = "EntityNotFound" /\ g.result = <<>>
           /\ g.outcome = "ok" =>
                 Len(g.result) = 1 /\ g.result[1] # NoRow /\ g.result[1].id = i
           /\ g.outcome \in {"ok", "EntityNotFound"}

\* A get has just returned an entity while the other id names no row.
C6_Witness ==
    /\ lastOp = [op |-> "get", outcome |-> "ok"]
    /\ \E i, j \in Oids : WithId(view, i) # {} /\ WithId(view, j) = {}

Attr(row, key) ==
    CASE key = "name" -> [s |-> row.name, n |-> 0]
      [] key = "age" -> [s |-> "", n |-> row.age]
      [] key = "id" -> [s |-> "", n |-> row.id]

C9_IdKeyRejected ==
    /\ \A e \in Held(Cur), kw \in ChangeSets :
           (Stored(e) # {} /\ IdFree(Cur, 1, kw) /\ \E j \in 1..Len(kw) : kw[j].key = "id") =>
               LET r == update(Cur, e, kw)
               IN r.outcome # "ok" /\ r.st.db = db /\ r.st.view = SessionNow.view
    /\ \A es \in EntityLists(Cur), kw \in ChangeSets :
           (es # <<>> /\ IdFree(Cur, Attached(es), kw) /\ \E j \in 1..Len(kw) : kw[j].key = "id") =>
               LET r == update_batch(Cur, es, kw)
               IN r.outcome # "ok" /\ r.st.db = db /\ r.st.view = SessionNow.view

\* C10: every stored entity has the id create gave it, and no two stored
\* entities share an id.
C10_IdImmutable ==
    /\ \A o \in Live(db) : db[o].id = o
    /\ \A o1, o2 \in Live(db) : db[o1].id = db[o2].id => o1 = o2

\* C11: when create, create_batch, delete or delete_batch ends in an
\* exception (an element is rejected, or the engine raises in commit or
\* refresh), the operation has called rollback, the exception is
\* CouldNotCreateEntityException or CouldNotDeleteEntityException, and the
\* store is as it was before the call.
C11_RollbackAndWrap ==
    \A f \in Faults :
        /\ \A e \in NewEntities :
               Room(Cur, 1) =>
                   LET r == create(Faulty(Cur, f), e)
                   IN r.outcome # "ok" =>
                          r.outcome = "CouldNotCreateEntity" /\ r.rollbacks >= 1 /\ r.st.db = db
        /\ \A es \in NewLists :
               Room(Cur, Len(es)) =>
                   LET r == create_batch(Faulty(Cur, f), es)
                   IN r.outcome # "ok" =>
                          r.outcome = "CouldNotCreateEntity" /\ r.rollbacks >= 1 /\ r.st.db = db
        /\ \A e \in EntityArgs(Cur) :
               LET r == delete(Faulty(Cur, f), e)
               IN r.outcome # "ok" =>
                      r.outcome = "CouldNotDeleteEntity" /\ r.rollbacks >= 1 /\ r.st.db = db
        /\ \A es \in EntityLists(Cur) :
               LET r == delete_batch(Faulty(Cur, f), es)
               IN r.outcome # "ok" =>
                      r.outcome = "CouldNotDeleteEntity" /\ r.rollbacks >= 1 /\ r.st.db = db

\* An outcome that comes from an error of the engine
EngineError(r) == r.outcome \in {"RawException", "CouldNotCreateEntity", "CouldNotDeleteEntity"}

\* C12: whenever an engine error ends update, update_batch or create_batch
\* (a failing commit or refresh included), the operation has rolled its
\* session back before the error reaches the caller.
C12_RollbackOnEveryFailure ==
    \A f \in Faults :
        /\ \A e \in Held(Cur), kw \in ChangeSets :
               IdFree(Cur, 1, kw) =>
                   LET r == update(Faulty(Cur, f), e, kw)
                   IN EngineError(r) => r.rollbacks >= 1
        /\ \A es \in EntityLists(Cur), kw \in ChangeSets :
               IdFree(Cur, Attached(es), kw) =>
                   LET r == update_batch(Faulty(Cur, f), es, kw)
                   IN EngineError(r) => r.rollbacks >= 1
        /\ \A es \in NewLists :
               Room(Cur, Len(es)) =>
                   LET r == create_batch(Faulty(Cur, f), es)
                   IN EngineError(r) => r.rollbacks >= 1

\* C13: every operation on entities ends normally or in one of the five
\* kinds of the taxonomy, wherever the engine fails.
C13_OnlyTaxonomy ==
    LET Kinds == {"ok", "EntityNotFound", "EntityDoesNotPossessAttribute",
                  "CouldNotCreateEntity", "CouldNotDeleteEntity",
                  "RepositoryConfigurationError"}
    IN \A f \in Faults :
           /\ \A e \in Held(Cur) \cup {NewEntity("a", 1)}, kw \in ChangeSets :
                  IdFree(Cur, 1, kw) => update(Faulty(Cur, f), e, kw).outcome \in Kinds
           /\ \A es \in EntityLists(Cur), kw \in ChangeSets :
                  (IdFree(Cur, Attached(es), kw) /\ \A i \in 1..Len(es) : es[i] # NonEntity) =>
                      update_batch(Faulty(Cur, f), es, kw).outcome \in Kinds
           /\ \A es \in NewLists :
                  Room(Cur, Len(es)) => create_batch(Faulty(Cur, f), es).outcome \in Kinds
           /\ \A i \in Oids : get(Cur, IdFilter(i)).outcome \in Kinds
           /\ get_batch(Cur, <<>>).outcome \in Kinds

\* C14: one call of any public operation calls get_session() exactly once,
\* its fetch, change and commit included.
C14_OneSession ==
    /\ \A e \in EntityArgs(Cur) \ {NonEntity}, kw \in ChangeSets :
           IdFree(Cur, 1, kw) => update(Cur, e, kw).sessions = 1
    /\ \A i \in Oids, kw \in ChangeSets :
           IdFree(Cur, 1, kw) => update_by_id(Cur, i, kw).sessions = 1
    /\ \A i \in Oids, collected \in BOOLEAN : delete_by_id(Cur, i, collected).sessions = 1
    /\ \A ids \in IdLists, kw \in ChangeSets :
           IdFree(Cur, Found(Cur, ids), kw) => update_batch_by_ids(Cur, ids, kw).sessions = 1
    /\ \A ids \in IdLists, collected \in BOOLEAN :
           delete_batch_by_ids(Cur, ids, collected).sessions = 1
    /\ \A i \in Oids : get(Cur, IdFilter(i)).sessions = 1
    /\ \A e \in NewEntities : Room(Cur, 1) => create(Cur, e).sessions = 1
    /\ \A e \in EntityArgs(Cur) : delete(Cur, e).sessions = 1

\* C15: when an operation of BaseRepository returns or raises, it has
\* released every session it got from get_session().
C15_SessionReleased ==
    \A f \in Faults :
        /\ \A i \in Oids : get(Cur, IdFilter(i)).closes = get(Cur, IdFilter(i)).sessions
        /\ get_batch(Cur, <<>>).closes = get_batch(Cur, <<>>).sessions
        /\ \A e \in NewEntities :
               Room(Cur, 1) =>
                   create(Faulty(Cur, f), e).closes = create(Faulty(Cur, f), e).sessions
        /\ \A e \in EntityArgs(Cur) :
               delete(Faulty(Cur, f), e).closes = delete(Faulty(Cur, f), e).sessions
        /\ \A es \in EntityLists(Cur) :
               delete_batch(Faulty(Cur, f), es).closes = delete_batch(Faulty(Cur, f), es).sessions

\* C16: create_batch, update_batch and delete_batch work through the list
\* in the caller's order before the commit: the entities of create_batch
\* get their ids in list order, update_batch changes an entity only after
\* all entities before it in the list; a call that succeeds issues exactly
\* one commit, a call whose element is rejected before the commit none.
C16_BatchOrderOneCommit ==
    /\ \A es \in NewLists :
           Room(Cur, Len(es)) =>
               LET r == create_batch(Cur, es)
               IN /\ r.commits <= 1
                  /\ (\E i \in 1..Len(es) : es[i] = NonEntity) => r.commits = 0
                  /\ r.outcome = "ok" =>
                         /\ r.commits = 1
                         /\ \A i \in 1..Len(es) :
                                /\ r.result[i].id = SessionNow.seq + i - 1
                                /\ r.result[i].name = es[i].name
                                /\ r.result[i].age = es[i].age
    /\ \A es \in EntityLists(Cur), kw \in ChangeSets :
           IdFree(Cur, Attached(es), kw) =>
               LET r == update_batch(Cur, es, kw)
               IN /\ r.commits <= 1
                  /\ r.outcome = "ok" => r.commits = 1
                  /\ r.outcome = "EntityDoesNotPossessAttribute" => r.commits = 0
                  /\ \A i, j \in 1..Len(es) :
                         (/\ i < j
                          /\ es[i].kind = "persistent" /\ es[j].kind = "persistent"
                          /\ r.st.view[es[j].key] # SessionNow.view[es[j].key]) =>
                             r.st.view[es[i].key] = SetAttrs(SessionNow.view[es[i].key], kw, 1).row
    /\ \A es \in EntityLists(Cur) :
           LET r == delete_batch(Cur, es)
           IN /\ r.commits <= 1
              /\ r.outcome = "ok" => r.commits = 1
              /\ (\E i \in 1..Len(es) : es[i].kind \in {"str", "new"}) =>
                     r.outcome = "CouldNotDeleteEntity" /\ r.commits = 0

\* An update_batch has just raised for an undeclared keyword after it had
\* changed the first entity of its list and before it touched the second.
C16_Witness ==
    /\ lastOp = [op |-> "update_batch", outcome |-> "EntityDoesNotPossessAttribute"]
    /\ \E o1, o2 \in Live(view) : view[o1] # db[o1] /\ view[o2] = db[o2]

C18_BatchRefreshed ==
    /\ \A es \in SeqsUpTo(ValidEntities, MaxBatch) :
           (/\ Room(Cur, Len(es))
            /\ \A i \in 1..Len(es) : WithId(SessionNow.view, SessionNow.seq + i - 1) = {}) =>
               LET r == create_batch(Cur, es)
               IN /\ r.outcome = "ok" /\ Len(r.result) = Len(es)
                  /\ \A i \in 1..Len(es) :
                         /\ r.result[i].id # NoRow.id
                         /\ r.result[i].name = es[i].name /\ r.result[i].age = es[i].age
                         /\ get(r.st, IdFilter(r.result[i].id)).result = <<r.result[i]>>
    /\ \A es \in EntityLists(Cur), kw \in ChangeSets :
           (/\ IdFree(Cur, Attached(es), kw)
            /\ \A i \in 1..Len(es) : es[i] \in Held(Cur) /\ Stored(es[i]) # {}
            /\ \A j \in 1..Len(kw) : kw[j].key \in Declared) =>
               LET r == update_batch(Cur, es, kw)
               IN /\ r.outcome = "ok" /\ Len(r.result) = Len(es)
                  /\ \A i \in 1..Len(es) :
                         /\ r.result[i].id # NoRow.id
                         /\ get(r.st, IdFilter(r.result[i].id)).result = <<r.result[i]>>

\* The ids of a list that name a row of the session, in list order
Known(ids) == SelectSeq(ids, LAMBDA i : WithId(SessionNow.view, i) # {})

BothChanges ==
    {<<Kw("name", FALSE, "b", 0), Kw("age", FALSE, "", 2)>>,
     <<Kw("age", FALSE, "", 2), Kw("name", FALSE, "b", 0)>>}

\* C21: update_batch and update_batch_by_ids with the changes name=N, age=A
\* return; after them a get of every id of the batch has name N and age A
\* and the id it had, and every entity outside the batch is as it was.
C21_UpdateBatchSameChanges ==
    /\ \A es \in EntityLists(Cur), kw \in BothChanges :
           (\A i \in 1..Len(es) : es[i] \in Held(Cur) /\ Stored(es[i]) # {}) =>
               LET r == update_batch(Cur, es, kw)
                   m == UNION {Stored(es[i]) : i \in 1..Len(es)}
               IN /\ r.outcome = "ok"
                  /\ \A o \in m :
                         LET g == get(r.st, IdFilter(SessionNow.view[o].id))
                         IN /\ g.outcome = "ok"
                            /\ g.result = <<Row(SessionNow.view[o].id, "b", 2)>>
                  /\ \A o \in Oids \ m : r.st.db[o] = SessionNow.view[o]
    /\ \A ids \in IdLists, kw \in BothChanges :
           LET r == update_batch_by_ids(Cur, ids, kw)
               m == {o \in Live(SessionNow.view) :
                        SessionNow.view[o].id \in {ids[i] : i \in 1..Len(ids)}}
           IN /\ r.outcome = "ok"
              /\ \A o \in m :
                     LET g == get(r.st, IdFilter(SessionNow.view[o].id))
                     IN /\ g.outcome = "ok"
                        /\ g.result = <<Row(SessionNow.view[o].id, "b", 2)>>
              /\ \A o \in Oids \ m : r.st.db[o] = SessionNow.view[o]

\* Filters of get_batch that the rows of the model may or may not match
SomeFilters ==
    {<<IdFilter(i)>> : i \in Oids} \cup {<<NullIdFilter>>}
        \cup {<<Filter("name", FALSE, n, 0, {})>> : n \in Names}
        \cup {<<Filter("name", FALSE, n, 0, {}), Filter("age", FALSE, "", a, {})>> :
                  n \in Names, a \in Ages}

\* C22: get_batch without filters returns every stored entity, each once;
\* get_batch with filters returns the entities that match them all, and
\* where none matches it returns the empty list and does not raise.
C22_GetBatchAllOrEmpty ==
    /\ LET r == get_batch(Cur, <<>>)
       IN /\ r.outcome = "ok"
          /\ r.oids = OidSeq(Live(db))
          /\ r.result = RowsOf(SessionNow.view, OidSeq(Live(db)))
    /\ \A fs \in SomeFilters :
           LET r == get_batch(Cur, fs)
               m == {o \in Live(SessionNow.view) :
                        \A i \in 1..Len(fs) : Matches(SessionNow.view[o], fs[i])}
           IN /\ r.outcome = "ok"
              /\ r.oids = OidSeq(m)
              /\ m = {} => r.result = <<>>
              /\ r.st = SessionNow

\* A find has just returned while an entity is stored that a filter of the
\* model does not match.
C22_Witness ==
    /\ lastOp = [op |-> "find", outcome |-> "ok"]
    /\ Live(db) # {}
    /\ \E fs \in SomeFilters : get_batch(Cur, fs).result = <<>>

-----------------------------------------------------------------------------
(* The logging of the operations.  A call is named by the operation name    *)
(* its events carry, with its entities, keyword arguments and filters.      *)

In(op, entities, kwargs, filters) ==
    [op |-> op, entities |-> entities, kwargs |-> kwargs, filters |-> filters]

LogChangeSets == {kw \in ChangeSets : Len(kw) <= 1 /\ ~SetsId(kw)}
BatchLogChangeSets == {<<Kw("name", FALSE, "b", 0)>>, <<Kw("legs", FALSE, "", 12)>>}

\* The calls of the public operations of BaseRepository on the state st
Inputs(st) ==
    {In("Creating", <<e>>, <<>>, <<>>) : e \in {x \in NewEntities : Room(st, 1)}}
        \cup {In("Batch creating", es, <<>>, <<>>) : es \in {x \in NewLists : Room(st, Len(x))}}
        \cup {In("Getting", <<>>, <<Kw("id", FALSE, "", i)>>, <<>>) : i \in Oids}
        \cup {In("Batch get", <<>>, <<>>, fs) : fs \in SomeFilters \cup {<<>>}}
        \cup {In("Finding", <<>>, kw, <<>>) : kw \in ChangeSets}
        \cup {In("Updating", <<e>>, kw, <<>>) : e \in EntityArgs(st), kw \in LogChangeSets}
        \cup {In("Batch updating", es, kw, <<>>) : es \in EntityLists(st), kw \in BatchLogChangeSets}
        \cup {In("Deleting", <<e>>, <<>>, <<>>) : e \in EntityArgs(st)}
        \cup {In("Batch deleting", es, <<>>, <<>>) : es \in EntityLists(st)}

\* The outcome of the call c on the state st
Run(st, c) ==
    CASE c.op = "Creating" -> create(st, c.entities[1])
      [] c.op = "Batch creating" -> create_batch(st, c.entities)
      [] c.op = "Getting" -> get(st, IdFilter(c.kwargs[1].n))
      [] c.op = "Batch get" -> get_batch(st, c.filters)
      [] c.op = "Finding" -> find(st, c.kwargs)
      [] c.op = "Updating" -> update(st, c.entities[1], c.kwargs)
      [] c.op = "Batch updating" -> update_batch(st, c.entities, c.kwargs)
      [] c.op = "Deleting" -> delete(st, c.entities[1])
      [] c.op = "Batch deleting" -> delete_batch(st, c.entities)

WellFormed(c) == \A i \in 1..Len(c.entities) : c.entities[i].kind # "str"

\* C23: every public operation that returns has emitted, after its begin
\* event, an event named "<operation> <EntityTypeName> succeeded" that
\* carries entity_ids; an operation that raises has emitted no such event.
C23_SucceededEvent ==
    \A c \in Inputs(Cur) :
        LET r == Run(Cur, c)
            succeeded == {i \in 1..Len(r.log) :
                             r.log[i].event = <<c.op, EntityName, "succeeded">>}
        IN IF r.outcome = "ok"
           THEN \E i \in succeeded :
                    /\ i > 1
                    /\ \E j \in 1..Len(r.log[i].fields) : r.log[i].fields[j].key = "entity_ids"
           ELSE succeeded = {}

\* C24: every public operation called with well-formed entities emits
\* first of all its begin event, named by its operation name and the entity
\* type name; when the operation raises, that event has been emitted and
\* the exception of the operation reaches the caller.
C24_BeginEventFirst ==
    \A c \in Inputs(Cur) :
        WellFormed(c) =>
            LET r == Run(Cur, c)
            IN /\ r.log # <<>>
               /\ r.log[1].level = "debug"
               /\ r.log[1].event = <<c.op, EntityName>>

\* The keys that must not be logged by a repository with sensitive keys sens
Excluded(sens) == sens \cup {"_sa_instance_state"}

\* The pairs of the attribute map kv that may be logged, as a set
Loggable(sens, kv) == {kv[j] : j \in {i \in 1..Len(kv) : kv[i].key \notin Excluded(sens)}}

\* The pairs of a logged field map whose key is an entity attribute, and
\* those whose key carries the prefix of the keyword arguments, without it
Unprefixed(fields) ==
    {fields[j] : j \in {i \in 1..Len(fields) : fields[i].key \in {"id", "name", "age"}}}
Prefixed(fields, kv) ==
    {p \in {kv[j] : j \in 1..Len(kv)} :
         \E i \in 1..Len(fields) : fields[i] = [p EXCEPT !.key = "kwarg_" \o p.key]}

\* C25: for every configured set of sensitive keys, the begin event of every
\* operation carries, for a single entity, exactly the pairs of the entity's
\* attribute map whose key is neither sensitive nor _sa_instance_state, for
\* a batch the list of these maps, and for the keyword arguments exactly
\* the pairs whose key is not excluded, under the key with the prefix; no
\* event carries an excluded key.
C25_Redaction ==
    \A sens \in SensitiveSets :
        LET st == WithSensitive(Cur, sens)
        IN \A c \in Inputs(Cur) :
               LET r == Run(st, c)
                   ev == r.log[1]
                   n == Len(c.entities)
               IN /\ \A i \in 1..Len(r.log) :
                         /\ \A j \in 1..Len(r.log[i].fields) :
                                /\ r.log[i].fields[j].key \notin Excluded(sens)
                                /\ r.log[i].fields[j].key \notin {"kwarg_" \o x : x \in Excluded(sens)}
                         /\ \A m \in 1..Len(r.log[i].payload) :
                                \A j \in 1..Len(r.log[i].payload[m]) :
                                    r.log[i].payload[m][j].key \notin Excluded(sens)
                  /\ (r.log # <<>> /\ ev.level = "debug" /\ c.op # "Finding") =>
                         /\ Len(ev.fields) = Cardinality(Unprefixed(ev.fields))
                                                 + Cardinality(Prefixed(ev.fields, c.kwargs))
                         /\ Prefixed(ev.fields, c.kwargs) = Loggable(sens, c.kwargs)
                         /\ n = 1 => Unprefixed(ev.fields) = Loggable(sens, EntityDict(SessionNow, c.entities[1]))
                         /\ n # 1 =>
                                /\ Unprefixed(ev.fields) = {}
                                /\ Len(ev.payload) = n
                                /\ \A m \in 1..n :
                                       /\ Len(ev.payload[m]) = Cardinality(Unprefixed(ev.payload[m]))
                                       /\ Unprefixed(ev.payload[m])
                                              = Loggable(sens, EntityDict(SessionNow, c.entities[m]))

\* An update with a keyword argument has just returned, and the begin event
\* of that call on a repository with name as sensitive key carries the age
\* of the entity and neither its name nor the keyword argument name.
C25_Witness ==
    /\ lastOp = [op |-> "update", outcome |-> "ok"]
    /\ \E e \in Held(Cur) :
           LET r == update(WithSensitive(Cur, {"name"}), e, <<Kw("name", FALSE, "b", 0)>>)
           IN /\ r.outcome = "ok"
              /\ \E j \in 1..Len(r.log[1].fields) : r.log[1].fields[j].key = "age"
              /\ \A j \in 1..Len(r.log[1].fields) :
                     r.log[1].fields[j].key \notin {"name", "kwarg_name"}

\* C26: whatever levels the logging sink raises at, and for a malformed
\* entity, every operation ends as it does with a logger that works, with
\* the same result and the same store and session, and the failure of the
\* logging has been emitted as a warning event.
C26_LoggingNeverInterferes ==
    \A k \in Sinks, c \in Inputs(Cur) :
        LET r == Run(WithSink(Cur, k), c)
            r0 == Run(Cur, c)
        IN /\ r.outcome = r0.outcome
           /\ r.result = r0.result
           /\ r.st.db = r0.st.db /\ r.st.view = r0.st.view
           /\ (r0.log # <<>> /\ (~WellFormed(c) \/ "debug" \in k)) =>
                  \E i \in 1..Len(r.log) : r.log[i].level = "warning"

\* The id a logged attribute map carries (None is the id of no row)
IdOf(fields) ==
    IF \E j \in 1..Len(fields) : fields[j].key = "id" /\ ~fields[j].none
    THEN (CHOOSE p \in {fields[j] : j \in 1..Len(fields)} : p.key = "id").n
    ELSE NoRow.id

\* The ids an event carries: those of its payload list, or of its one entity
IdsCarried(ev) ==
    IF ev.has_payload THEN [m \in 1..Len(ev.payload) |-> IdOf(ev.payload[m])]
    ELSE <<IdOf(ev.fields)>>

\* C27: create_batch, update_batch and delete_batch of N entities, N from 0
\* on, that return have emitted one event for the call and not one for
\* every element, and that event carries the ids of the N entities in list
\* order.
C27_OneAggregateEvent ==
    /\ \A es \in SeqsUpTo(ValidEntities, MaxBatch) :
           Room(Cur, Len(es)) =>
               LET r == create_batch(Cur, es)
               IN r.outcome = "ok" =>
                      /\ Len(r.log) = 1
                      /\ IdsCarried(r.log[1]) = [i \in 1..Len(es) |-> r.result[i].id]
    /\ \A es \in EntityLists(Cur), kw \in BatchLogChangeSets :
           LET r == update_batch(Cur, es, kw)
           IN r.outcome = "ok" =>
                  /\ Len(r.log) = 1
                  /\ IdsCarried(r.log[1]) = [i \in 1..Len(es) |-> r.result[i].id]
    /\ \A es \in EntityLists(Cur) :
           LET r == delete_batch(Cur, es)
           IN r.outcome = "ok" =>
                  /\ Len(r.log) = 1
                  /\ IdsCarried(r.log[1]) = [i \in 1..Len(es) |-> EntityDict(SessionNow, es[i])[1].n]

\* C29: when update or update_batch raises
\* EntityDoesNotPossessAttributeException for a key that cannot be set, the
\* stored entities are as before the call, and a commit on the session
\* after the call persists none of the other changes of the call.
C29_FailedUpdateLeavesNothing ==
    /\ \A e \in Held(Cur), kw \in ChangeSets :
           IdFree(Cur, 1, kw) =>
               LET r == update(Cur, e, kw)
               IN r.outcome = "EntityDoesNotPossessAttribute" =>
                      /\ r.st.db = db
                      /\ Commit(r.st).db = Commit(SessionNow).db
    /\ \A es \in EntityLists(Cur), kw \in ChangeSets :
           IdFree(Cur, Attached(es), kw) =>
               LET r == update_batch(Cur, es, kw)
               IN r.outcome = "EntityDoesNotPossessAttribute" =>
                      /\ r.st.db = db
                      /\ Commit(r.st).db = Commit(SessionNow).db

\* C28: _entity_class called on a repository class returns the type the
\* class binds when that is an entity type and raises TypeError when it is
\* not, whatever the cache holds; the constructor of a class that binds no
\* entity type raises and makes no instance, so every instance in use is of
\* a class that binds an entity type and holds that type.
C28_EntityTypeOrError ==
    /\ \A cls \in RepoTypes :
           LET r == entity_class(TypesNow, cls)
               made == init(TypesNow, instances, cls)
           IN IF Bound(cls) \in {"Pet", "Shelter"}
              THEN /\ r.outcome = "ok" /\ r.entity = Bound(cls)
                   /\ made.outcome = "ok" /\ made.entity = Bound(cls)
                   /\ made.instances = instances \cup {cls}
              ELSE /\ r.outcome = "TypeError"
                   /\ made.outcome = "TypeError" /\ made.instances = instances
    /\ \A cls \in instances : Bound(cls) \in {"Pet", "Shelter"}
    /\ \A i \in 1..Len(cache) : cache[i].entity = Bound(cache[i].cls)

\* The constructor of a class that binds no entity type has just raised,
\* next to an instance of a class that binds one.
C28_Witness ==
    /\ lastType = [cls |-> "IntRepository", outcome |-> "TypeError"]
    /\ "PetRepository" \in instances
    /\ resolved["IntRepository"] >= 1

\* C30: over any sequence of _entity_class calls on two or more repository
\* classes the body of _entity_class runs at most once for each class that
\* binds an entity type, and every call returns the type bound to the
\* class it is called on.
C30_ResolvedOncePerType ==
    /\ \A cls \in RepoTypes : IsEntity(Bound(cls)) => resolved[cls] <= 1
    /\ \A cls \in RepoTypes :
           IsEntity(Bound(cls)) => entity_class(TypesNow, cls).entity = Bound(cls)

-----------------------------------------------------------------------------
(* Properties of the session management *)

\* C31: a session that get_session() returned in one context is never
\* returned by get_session() in another context: no two contexts hold the
\* same session.
C31_SessionPerContext ==
    \A t1, t2 \in Threads :
        t1 # t2 /\ threads[t1].got # 0 => threads[t1].got # threads[t2].got

\* C32: under every interleaving of constructor calls at most one
\* SessionManager object is created, and every constructor call gets the
\* one object that _instance names.
C32_OneInstance ==
    /\ Len(managers) <= 1
    /\ \A t \in Threads : threads[t].obj # 0 => threads[t].obj = instance
    /\ \A t1, t2 \in Threads :
           threads[t1].obj # 0 /\ threads[t2].obj # 0 => threads[t1].obj = threads[t2].obj

\* A thread that saw _instance None at line 19 waits for the lock or holds
\* it while the object exists already, made by a constructor call of
\* another thread that has returned it.
C32_Witness ==
    \E t1, t2 \in Threads :
        /\ threads[t1].pc \in {"new_lock", "new_locked"}
        /\ instance = 1
        /\ threads[t2].obj = 1 /\ threads[t2].held # "none"

\* C33: the manager a constructor call returned keeps the database_uri and
\* the engine of that call, and the sessions taken from it are bound to
\* that database, whatever constructor calls come later.
C33_ManagerKeepsDatabase ==
    \A t \in Threads :
        threads[t].held # "none" /\ threads[t].pc = "idle" =>
            /\ managers[threads[t].obj].uri = threads[t].held
            /\ managers[threads[t].obj].engine = threads[t].held
            /\ threads[t].bound \in {"none", threads[t].held}

-----------------------------------------------------------------------------
(* Repository as a wrapper of BaseRepository *)

\* The names the class BaseRepository defines, and those Repository defines
BaseRepositoryNames ==
    {"get_session", "find", "update", "update_batch", "get", "get_batch", "create",
     "create_batch", "delete", "delete_batch", "_safe_kwargs", "_emit_log", "_entity_class"}
RepositoryNames ==
    {"create", "create_batch", "get_by_id", "find", "get_batch_by_ids", "get_all", "update",
     "update_batch", "update_batch_by_ids", "update_by_id", "delete", "delete_by_id",
     "delete_batch", "delete_batch_by_ids"}

\* getattr(self, name) on an instance of a Repository class finds what one
\* of its classes defines; anything else is an AttributeError
HasAttr(name) == name \in RepositoryNames \cup BaseRepositoryNames

\* The attribute of self that the Repository method calls which stands for
\* the BaseRepository operation of the call c
Delegate(c) ==
    CASE c.op = "Creating" -> "_create"
      [] c.op = "Batch creating" -> "_create_batch"
      [] c.op = "Getting" -> "_get"
      [] c.op = "Batch get" -> "_get_batch"
      [] c.op = "Finding" -> "_get_batch"
      [] c.op = "Updating" -> "_update"
      [] c.op = "Batch updating" -> "_update_batch"
      [] c.op = "Deleting" -> "_delete"
      [] c.op = "Batch deleting" -> "_delete_batch"

\* The Repository method for the call c, on the state st: create,
\* create_batch, get_by_id, get_all or get_batch_by_ids, find, update,
\* update_batch, delete, delete_batch.  find builds its filters first and
\* raises for an undeclared name; then each of them looks up its attribute
\* of self, before any session is taken.
RepositoryRun(st, c) ==
    IF c.op = "Finding" /\ \E i \in 1..Len(c.kwargs) : c.kwargs[i].key \notin Declared
    THEN Acq(0, Raise(st, "EntityDoesNotPossessAttribute", Eff(0, 0, {})))
    ELSE IF ~HasAttr(Delegate(c))
    THEN Acq(0, Raise(st, "AttributeError", Eff(0, 0, {})))
    ELSE Run(st, c)

\* C34: every operation of Repository has the effect on the store, the
\* result and the exceptions of the BaseRepository operation it wraps, and
\* the attribute it calls is one BaseRepository defines.
C34_RepositoryWrapsBase ==
    \A c \in Inputs(Cur) :
        LET r == RepositoryRun(Cur, c)
            b == Run(Cur, c)
        IN /\ Delegate(c) \in BaseRepositoryNames
           /\ r.outcome = b.outcome
           /\ r.result = b.result
           /\ r.st.db = b.st.db /\ r.st.view = b.st.view

\* What a call that only reads leaves behind: no commit, no rollback, no
\* row deleted or inserted, the committed rows and the session's view of
\* them as they were
ReadOnly(r) ==
    /\ r.commits = 0 /\ r.rollbacks = 0 /\ r.det = {}
    /\ r.st.db = db
    /\ r.st.seq = seq
    /\ r.st.view = SessionNow.view

\* C35: get, get_batch, find, get_by_id, get_all and get_batch_by_ids leave
\* the store as it is, whether they return or raise: they commit nothing,
\* roll nothing back, insert and delete no row, and every stored entity has
\* the attributes it had, also those pending in the session.
C35_ReadsLeaveStore ==
    /\ \A i \in Oids, k \in Sinks :
           /\ ReadOnly(get(WithSink(Cur, k), IdFilter(i)))
           /\ ReadOnly(get_by_id(WithSink(Cur, k), i))
    /\ \A fs \in SomeFilters \cup {<<>>} : ReadOnly(get_batch(Cur, fs))
    /\ \A kw \in ChangeSets : ReadOnly(find(Cur, kw))
    /\ ReadOnly(get_all(Cur))
    /\ \A ids \in IdLists : ReadOnly(get_batch_by_ids(Cur, ids))
    /\ \A c \in Inputs(Cur) :
           c.op \in {"Getting", "Batch get", "Finding"} => ReadOnly(RepositoryRun(Cur, c))

\* get_all has returned the stored entities on a session that holds
\* changes not yet committed.
C35_Witness ==
    /\ lastOp = [op |-> "get_all", outcome |-> "ok"]
    /\ Live(db) # {}
    /\ view # db

-----------------------------------------------------------------------------
(* Two runs that differ in sensitive values only *)

\* Another value for an attribute
OtherName(n) == IF n = "a" THEN "b" ELSE IF n = "b" THEN "a" ELSE n
OtherAge(a) == IF a = 1 THEN 2 ELSE IF a = 2 THEN 1 ELSE a
OtherId(i) == IF i \in Oids THEN MaxId + 1 - i ELSE i

\* The row with another value for every attribute in sens
VaryRow(row, sens) ==
    IF row = NoRow THEN NoRow
    ELSE Row(IF "id" \in sens THEN OtherId(row.id) ELSE row.id,
             IF "name" \in sens THEN OtherName(row.name) ELSE row.name,
             IF "age" \in sens THEN OtherAge(row.age) ELSE row.age)

\* The session whose stored entities differ from those of st in the values
\* of the attributes in sens, and in nothing else
VaryState(st, sens) ==
    [st EXCEPT !.db = [o \in Oids |-> VaryRow(st.db[o], sens)],
               !.view = [o \in Oids |-> VaryRow(st.view[o], sens)]]

\* The entity argument with other values for the attributes in sens
VaryArg(e, sens) ==
    IF e.kind \in {"new", "bad"}
    THEN [e EXCEPT !.name = IF "name" \in sens THEN OtherName(e.name) ELSE e.name,
                   !.age = IF "age" \in sens THEN OtherAge(e.age) ELSE e.age]
    ELSE IF e.kind \in {"detached", "foreign"}
    THEN [e EXCEPT !.key = IF "id" \in sens THEN OtherId(e.key) ELSE e.key]
    ELSE e

\* The keyword argument with another value when its key is in sens: None
\* for a value, a value for None
VaryKw(p, sens) ==
    IF p.key \notin sens \/ p.key = "id" THEN p
    ELSE IF p.none THEN Kw(p.key, FALSE, "b", 2)
    ELSE Kw(p.key, TRUE, "", 0)

\* The call with other values for the sensitive attributes of its entities
\* and keyword arguments
VaryCall(c, sens) ==
    IF c.op \in {"Getting", "Batch get", "Finding"} THEN c
    ELSE [c EXCEPT !.entities = [i \in 1..Len(c.entities) |-> VaryArg(c.entities[i], sens)],
                   !.kwargs = [i \in 1..Len(c.kwargs) |-> VaryKw(c.kwargs[i], sens)]]

\* C36: two calls of an operation that differ only in the values of the
\* sensitive attributes, of the entities passed, of the keyword arguments
\* of update and of the entities stored, emit the same log events, also the
\* warning events emitted when the entry cannot be built.
C36_LogsHideSensitiveValues ==
    \A sens \in SensitiveSets \ {{}}, stored \in BOOLEAN :
        \A c \in Inputs(Cur) :
            LET st1 == WithSensitive(Cur, sens)
                st2 == IF stored THEN VaryState(st1, sens) ELSE st1
            IN Run(st1, c).log = Run(st2, VaryCall(c, sens)).log

\* update has changed the sensitive name of a stored entity: the call with
\* a name and the call with None for it leave different entities and the
\* same log event, which carries the age.
C36_Witness ==
    /\ lastOp = [op |-> "update", outcome |-> "ok"]
    /\ \E e \in Held(Cur) :
           LET st == WithSensitive(Cur, {"name"})
               r1 == update(st, e, <<Kw("name", FALSE, "b", 0)>>)
               r2 == update(st, e, <<VaryKw(Kw("name", FALSE, "b", 0), {"name"})>>)
           IN /\ r1.outcome = "ok" /\ r2.outcome = "ok"
              /\ r1.result # r2.result
              /\ r1.log = r2.log
              /\ \E j \in 1..Len(r1.log[1].fields) : r1.log[1].fields[j].key = "age"

-----------------------------------------------------------------------------
(* Properties of python_repository *)

Count(calls, name) == Cardinality({i \in 1..Len(calls) : calls[i] = name})

\* What session() guarantees for the outcome r of an operation
Scoped(r) ==
    /\ Count(r.calls, "close") = 1
    /\ r.calls[Len(r.calls)] = "close"
    /\ r.st.view = r.st.db
    /\ IF r.body # "ok"
       THEN /\ Count(r.calls, "rollback") = 1
            /\ r.calls[Len(r.calls) - 1] = "rollback"
            /\ r.outcome = r.body
       ELSE Count(r.calls, "rollback") = 0

\* C37: _create, _get, _get_all, _update and _delete run in session(): the
\* session is closed once, as the last call on it, on every exit path; it
\* is rolled back, right before the close, exactly when the body of the
\* with block raised, and that exception is the one the caller gets.
C37_SessionScope ==
    /\ \A e \in NewEntities \cup PyArgs(Cur), f \in Faults :
           /\ Room(Cur, 1) => Scoped(py_create(Faulty(Cur, f), e))
           /\ Scoped(py_delete(Faulty(Cur, f), e))
           /\ \A kw \in ChangeSets : Scoped(py_update(Faulty(Cur, f), e, kw))
    /\ \A bound \in BOOLEAN :
           /\ \A i \in Oids : Scoped(py_get(Cur, i, bound))
           /\ \A ids \in IdLists :
                  Scoped(py_get_all(Cur, <<IdInFilter({ids[i] : i \in 1..Len(ids)})>>, bound))
           /\ Scoped(py_get_all(Cur, <<>>, bound))

\* _create has raised CouldNotCreateEntityException for an entity that a
\* _create before it has stored.
C37_Witness ==
    /\ lastOp = [op |-> "_create", outcome |-> "CouldNotCreateEntity"]
    /\ Live(db) # {}

\* C38: delete_batch of python_repository issues one commit for the whole
\* list, and when the delete of an element fails no element of the list
\* has been deleted.
C38_PyDeleteBatchOneCommit ==
    \A es \in PyLists(Cur), f \in Faults :
        LET r == py_delete_batch(Faulty(Cur, f), es)
        IN /\ Count(r.calls, "commit") <= 1
           /\ r.outcome # "ok" => r.st.db = db

\* C39: delete_all(ids, session) deletes every stored object whose id is
\* in ids and returns them: a get_all of the same ids on the same session
\* is empty afterwards, and the objects with other ids are as they were.
C39_DeleteAllDeletes ==
    \A ids \in IdLists :
        LET r == controller_delete_all(Cur, ids)
            S == {ids[i] : i \in 1..Len(ids)}
        IN /\ r.outcome = "ok"
           /\ r.result = controller_get_all(Cur, ids).result
           /\ controller_get_all(r.st, ids).result = <<>>
           /\ \A o \in Oids : db[o].id \notin S => r.st.db[o] = db[o]

====
